---------------------------- MODULE Spec2Model ----------------------------
(***************************************************************************)
(* Model of the regime-aware tactical scanning and scoring pipeline of     *)
(* analisis-tecnico: TacticalRadarSystem (tactical_radars.py), MarketRadar *)
(* scoring (market_radar.py) and SVGASystem.generate_signals               *)
(* (svga_system.py).                                                       *)
(*                                                                         *)
(* Numbers with a fractional part in the source are kept as integers in    *)
(* tenths where the text says so (confidence, score, MACD histogram).      *)
(* A bar series is summarised by its number of bars and by the indicator   *)
(* values pandas_ta yields on its last two complete rows.                  *)
(***************************************************************************)
EXTENDS Integers, Sequences, FiniteSets, TLC

VARIABLES
    \* --- what the market data provider (yf.download) returns ---
    bench,            \* benchmark bar series
    universe,         \* universe bar series: a sequence, one feed per ticker
    max_candidates,   \* argument of run_tactical_scan
    \* --- TacticalRadarSystem object ---
    market_regime,    \* self.market_regime
    regime_signal,    \* self.regime_signal
    tickers,          \* self.tickers
    data,             \* self.data
    \* --- results of the last calls ---
    regime_info,      \* record returned by determine_market_regime
    df_metrics,       \* table returned by calculate_tactical_metrics
    scan_out,         \* tuple returned by run_tactical_scan
    steps,            \* sub-operations the last run_tactical_scan executed
    regime_calls,     \* regime determinations made on the series now in bench
    \* --- MarketRadar object and the sentiment service ---
    sentiment_feed,     \* what the Fear & Greed source answers now
    radar_universe,     \* self.universe
    sentiment_analyzer, \* self.sentiment_analyzer: its cache, or NoAnalyzer
    sentiment_context,  \* self.sentiment_context
    candidates_in,      \* table passed to calculate_candidate_score
    scored,             \* table it returns
    \* --- SVGASystem.generate_signals ---
    bars_in,          \* the last two rows of the indicator frame
    signals,          \* the Signal Record returned
    \* --- DetectorAlertasAvanzadas ---
    datos_completos,  \* the batch passed in: ticker -> asset data
    detector,         \* self.anomalias, self.oportunidades, self.alertas_detectadas
    alertas_out,      \* the dict detectar_todas_alertas returned
    earlier_out,      \* the dict the call before returned, as its caller reads it now
    \* --- MarketRadar.calculate_radar_metrics ---
    radar_bars,       \* self.data: the bar series of the ticker scanned
    radar_metrics,    \* the metrics table returned
    asset_frames,     \* SVGASystem: the indicator frame of each asset, last rows
    ciclo,            \* main(): the number of the cycle that runs next
    cwd,              \* the directory the process runs in
    drive_paths,      \* whether 'c:/...' names one fixed directory (else relative)
    disk,             \* per directory, the cycle that wrote each analysis JSON
    resumen,          \* the last executive summary: its cycle and what it was fed
    users,            \* MultiUserAnalysisSystem: the active users of the cycle
    parallel,         \* run_full_cycle(parallel)
    max_workers,      \* self.max_workers
    cycle_pc,         \* the step of run_full_cycle the main thread is at
    cycles_run,       \* cycles started on this system object
    radar_cache,      \* self.radar_cache: candidates per radar, and who wrote them
    market_candidates,\* the candidate list handed to every analysis
    scans,            \* radar scans started in the current cycle
    worker,           \* per user, the state of its analyze_user call
    svga_instances,   \* SVGASystem objects created so far
    analysis_results, \* the results list of run_sequential / run_parallel
    cycle_result,     \* what run_full_cycle returned
    \* --- calculate_tactical_metrics, the ticker under way ---
    df_len,           \* data_len = len(df)
    ema_windows,      \* the lengths handed to ta.ema, or NoWindows
    \* --- every component ---
    last_call,        \* the operation that ran last
    last_raised       \* whether it let an exception out

tacticalVars ==
    <<bench, universe, max_candidates, market_regime, regime_signal, tickers,
      data, regime_info, df_metrics, scan_out, steps, regime_calls>>
scorerVars ==
    <<sentiment_feed, radar_universe, sentiment_analyzer, sentiment_context,
      candidates_in, scored>>
signalVars == <<bars_in, signals>>
detectorVars == <<datos_completos, detector, alertas_out, earlier_out>>
radarMetricsVars == <<radar_bars, radar_metrics>>
svgaVars == <<asset_frames>>
cycleVars == <<ciclo, cwd, drive_paths, disk, resumen>>
multiUserVars ==
    <<users, parallel, max_workers, cycle_pc, cycles_run, radar_cache,
      market_candidates, scans, worker, svga_instances, analysis_results,
      cycle_result>>
windowVars == <<df_len, ema_windows>>
callVars == <<last_call, last_raised>>
vars ==
    <<tacticalVars, scorerVars, signalVars, detectorVars, radarMetricsVars,
      svgaVars, cycleVars, multiUserVars, windowVars, callVars>>

\* What the operations of one component leave alone.
nonTacticalVars ==
    <<scorerVars, signalVars, detectorVars, radarMetricsVars, svgaVars,
      cycleVars, multiUserVars, windowVars>>
nonScorerVars ==
    <<tacticalVars, signalVars, detectorVars, radarMetricsVars, svgaVars,
      cycleVars, multiUserVars, windowVars>>
nonSignalVars ==
    <<tacticalVars, scorerVars, detectorVars, radarMetricsVars, svgaVars,
      cycleVars, multiUserVars, windowVars>>
nonDetectorVars ==
    <<tacticalVars, scorerVars, signalVars, radarMetricsVars, svgaVars,
      cycleVars, multiUserVars, windowVars>>
nonRadarMetricsVars ==
    <<tacticalVars, scorerVars, signalVars, detectorVars, svgaVars, cycleVars,
      multiUserVars, windowVars>>
nonSvgaVars ==
    <<tacticalVars, scorerVars, signalVars, detectorVars, radarMetricsVars,
      cycleVars, multiUserVars, windowVars>>
nonCycleVars ==
    <<tacticalVars, scorerVars, signalVars, detectorVars, radarMetricsVars,
      svgaVars, multiUserVars, windowVars>>
nonMultiUserVars ==
    <<tacticalVars, scorerVars, signalVars, detectorVars, radarMetricsVars,
      svgaVars, cycleVars, windowVars>>
nonWindowVars ==
    <<tacticalVars, scorerVars, signalVars, detectorVars, radarMetricsVars,
      svgaVars, cycleVars, multiUserVars>>

None == "None"

Max(a, b) == IF a >= b THEN a ELSE b
Min(a, b) == IF a <= b THEN a ELSE b

(***************************************************************************)
(* FASE 1: determine_market_regime                                         *)
(***************************************************************************)

\* Minimum number of benchmark bars the code asks for.
MinBenchBars == 60
\* Length of the long EMA of the benchmark (stored in column 'EMA_100').
BenchLongEmaLen == 200

\* Bounds of the benchmark inputs.
MaxBenchBars == 504

\* Regime determinations on one series that are told apart.
MaxRegimeCalls == 2

BenchBarChoices == {0, MinBenchBars - 1, MinBenchBars, BenchLongEmaLen - 1,
                    BenchLongEmaLen, BenchLongEmaLen + 1, MaxBenchBars}
PriceLevels == {99, 100, 101}
MacdHistChoices == {-15, 0, 15}          \* tenths: -1.5, 0, +1.5
AdxChoices == {15, 20, 22, 25, 30}

BenchInputs ==
    [bars : BenchBarChoices, price : PriceLevels, ema_50 : PriceLevels,
     EMA_100 : PriceLevels, macd_hist : MacdHistChoices, adx : AdxChoices]

\* Rows left by bench_data.dropna(): an EMA of length L is undefined on the
\* first L-1 bars (and on all of them when the series is shorter than L).
BenchRowsAfterDropna(b) ==
    IF b.bars >= BenchLongEmaLen THEN b.bars - (BenchLongEmaLen - 1) ELSE 0

\* The paths of the try block that raise (all caught at the except clause).
BenchRaises(b) ==
    \/ b.bars = 0                         \* bench_data.empty
    \/ b.bars < MinBenchBars              \* fewer than 60 bars
    \/ BenchRowsAfterDropna(b) = 0        \* empty after dropna
    \/ BenchRowsAfterDropna(b) < 2        \* bench_data.iloc[-2] out of range

\* === ANALISIS DE TENDENCIA ===  (confidence in tenths)
TrendAnalysis(b) ==
    IF b.price > b.EMA_100
    THEN LET c1 == 300 + (IF b.price > b.ema_50 THEN 200 ELSE 0)
         IN  IF b.ema_50 > b.EMA_100
             THEN [regime |-> "ALCISTA", signal |-> "COMPRAR", confidence |-> c1 + 200]
             ELSE [regime |-> "LATERAL", signal |-> "MANTENER", confidence |-> c1]
    ELSE IF b.price < b.EMA_100
    THEN LET c1 == 300 + (IF b.price < b.ema_50 THEN 200 ELSE 0)
         IN  IF b.ema_50 < b.EMA_100
             THEN [regime |-> "BAJISTA", signal |-> "VENDER", confidence |-> c1 + 200]
             ELSE [regime |-> "LATERAL", signal |-> "MANTENER", confidence |-> c1]
    ELSE [regime |-> "LATERAL", signal |-> "MANTENER", confidence |-> 0]

MomentumAnalysisNoBonus(s, b) == s

\* === ANALISIS DE MOMENTUM ===
MomentumAnalysis(s, b) ==
    IF b.macd_hist > 0 /\ s.regime = "ALCISTA"
    THEN [s EXCEPT !.confidence = @ + 150]
    ELSE IF b.macd_hist < 0 /\ s.regime = "BAJISTA"
    THEN [s EXCEPT !.confidence = @ + 150]
    ELSE s

StrengthAnalysisSubtract(s, b) ==
    IF b.adx < 20
    THEN [regime |-> "LATERAL", signal |-> "MANTENER", confidence |-> s.confidence - 400]
    ELSE IF b.adx > 25
    THEN [s EXCEPT !.confidence = @ + 150]
    ELSE s

StrengthAnalysisHalves(s, b) ==
    IF b.adx < 20
    THEN [regime |-> "LATERAL", signal |-> "MANTENER",
          confidence |-> s.confidence \div 2]
    ELSE IF b.adx > 25
    THEN [s EXCEPT !.confidence = @ + 150]
    ELSE s

\* === ANALISIS DE FUERZA DE TENDENCIA ===
StrengthAnalysis(s, b) ==
    IF b.adx < 20
    THEN [regime |-> "LATERAL", signal |-> "MANTENER",
          confidence |-> Max(s.confidence \div 2, 400)]
    ELSE IF b.adx > 25
    THEN [s EXCEPT !.confidence = @ + 150]
    ELSE s

\* Normalizar confianza
NormalizeConfidenceRemembers(s) ==
    [s EXCEPT !.confidence = Min(IF market_regime = s.regime THEN @ + 50 ELSE @, 1000)]

\* Normalizar confianza
NormalizeConfidence(s) == [s EXCEPT !.confidence = Min(@, 1000)]

UnknownRegime ==
    [regime |-> "UNKNOWN", signal |-> "MANTENER", confidence |-> 0, error |-> TRUE]

\* The record determine_market_regime returns for benchmark series b.
RegimeResult(b) ==
    IF BenchRaises(b)
    THEN UnknownRegime
    ELSE LET s == NormalizeConfidence(
                      StrengthAnalysis(MomentumAnalysis(TrendAnalysis(b), b), b))
         IN  [regime |-> s.regime, signal |-> s.signal,
              confidence |-> s.confidence, error |-> FALSE]

\* "Guardar estado" also run by the except branch.
SavedRegimeOverwritten(saved, b) ==
    [regime |-> RegimeResult(b).regime, signal |-> RegimeResult(b).signal]

\* "Guardar estado": self.market_regime and self.regime_signal after a call on
\* series b that found them holding saved; the except branch assigns neither.
SavedRegime(saved, b) ==
    IF BenchRaises(b)
    THEN saved
    ELSE [regime |-> RegimeResult(b).regime, signal |-> RegimeResult(b).signal]

\* The whole call: the record, and self.market_regime / self.regime_signal,
\* which are written on the success path only ("Guardar estado").
determine_market_regime ==
    /\ regime_info' = RegimeResult(bench)
    /\ market_regime' =
           SavedRegime([regime |-> market_regime, signal |-> regime_signal], bench).regime
    /\ regime_signal' =
           SavedRegime([regime |-> market_regime, signal |-> regime_signal], bench).signal
    /\ regime_calls' = Min(regime_calls + 1, MaxRegimeCalls)
    /\ last_call' = "determine_market_regime" /\ last_raised' = FALSE
    /\ UNCHANGED <<bench, universe, max_candidates, tickers, data, df_metrics,
                   scan_out, steps, nonTacticalVars>>

(***************************************************************************)
(* FASE 2: download_universe, calculate_tactical_metrics, the five radars  *)
(***************************************************************************)

\* Fewest bars a ticker needs to enter the metrics table.
MinTickerBars == 80

\* Bounds of the universe.
MaxTickers == 2
MaxCandidates == 2

TickerIds == 1..MaxTickers

\* Adaptive window lengths for a ticker with data_len bars.
ema20_len(data_len) == IF data_len >= 5 THEN Min(20, data_len) ELSE data_len
ema50_len(data_len) ==
    IF data_len >= 20 THEN Min(50, data_len) ELSE Max(10, data_len \div 2)

\* The long window with the 100-bar length taken from 100 bars on.
ema100_len_from_100(data_len) ==
    IF data_len >= 100
    THEN 100
    ELSE Min(Max(Max(ema50_len(data_len), (data_len * 6) \div 10), 30), data_len)

ema100_len(data_len) ==
    IF data_len >= 120
    THEN 100
    ELSE Min(Max(Max(ema50_len(data_len), (data_len * 6) \div 10), 30), data_len)

\* No window computed: the ticker was skipped, or none was reached yet.
NoWindows == [ema20_len |-> 0, ema50_len |-> 0, ema100_len |-> 0]

\* One pass of the loop of calculate_tactical_metrics up to the ta.ema calls:
\* a ticker with fewer than MinTickerBars bars is skipped.
adjust_windows ==
    /\ ema_windows' =
           IF df_len < MinTickerBars
           THEN NoWindows
           ELSE [ema20_len |-> ema20_len(df_len), ema50_len |-> ema50_len(df_len),
                 ema100_len |-> ema100_len(df_len)]
    /\ last_call' = "adjust_windows" /\ last_raised' = FALSE
    /\ UNCHANGED <<df_len, nonWindowVars>>

WindowsIdle == df_len = 0 /\ ema_windows = NoWindows

\* Rows left by df.dropna() for a priced, gap-free series: the long EMA has
\* the longest warm-up of the attached indicators (its length is at least 30,
\* MACD needs 33 bars, ADX 27, RSI 14, the volume SMA 19).
TickerRowsAfterDropna(f) ==
    IF ~f.priced \/ f.bars < ema100_len(f.bars)
    THEN 0
    ELSE f.bars - (Max(ema100_len(f.bars), 34) - 1)

\* The metrics row appended for ticker t with feed f.  f.macd_df and f.adx_df
\* tell whether ta.macd / ta.adx returned a non-empty frame, f.has_volume
\* whether the ticker's frame has a Volume column: the MACD columns are set to
\* 0 and ADX to 20 when the library returned nothing, volume and its average
\* read 0 when the column is missing.
MetricsRow(t, f) ==
    [ticker |-> t, precio |-> f.row.precio, precio_prev |-> f.row.precio_prev,
     ema_20 |-> f.row.ema_20, ema_20_prev |-> f.row.ema_20_prev,
     ema_50 |-> f.row.ema_50, EMA_100 |-> f.row.EMA_100, rsi |-> f.row.rsi,
     macd_hist |-> IF f.macd_df THEN f.row.macd_hist ELSE 0,
     macd_hist_prev |-> IF f.macd_df THEN f.row.macd_hist_prev ELSE 0,
     adx |-> IF f.adx_df THEN f.row.adx ELSE 20,
     volume |-> IF f.has_volume THEN f.row.volume ELSE 0,
     volume_sma_20 |-> IF f.has_volume THEN f.row.volume_sma_20 ELSE 0]

\* One pass of the loop body for ticker t: the rows it appends (none when the
\* body raises or reaches a continue).
TickerMetrics(t, d) ==
    IF ~d.loaded \/ t \notin DOMAIN d.frame   \* self.data[ticker] raises
    THEN <<>>
    ELSE IF ~d.frame[t].present               \* KeyError on the ticker's columns
    THEN <<>>
    ELSE IF d.frame[t].bars = 0 \/ d.frame[t].bars < MinTickerBars
    THEN <<>>
    ELSE IF TickerRowsAfterDropna(d.frame[t]) < 2
    THEN <<>>
    ELSE <<MetricsRow(t, d.frame[t])>>

RECURSIVE MetricsLoopStopAtError(_, _)
MetricsLoopStopAtError(ts, d) ==
    IF ts = <<>> \/ TickerMetrics(Head(ts), d) = <<>>
    THEN <<>>
    ELSE TickerMetrics(Head(ts), d) \o MetricsLoopStopAtError(Tail(ts), d)

\* for ticker in self.tickers: ... metrics.append(...)
RECURSIVE MetricsLoop(_, _)
MetricsLoop(ts, d) ==
    IF ts = <<>>
    THEN <<>>
    ELSE TickerMetrics(Head(ts), d) \o MetricsLoop(Tail(ts), d)

\* The table calculate_tactical_metrics returns for the object's state.
TacticalMetrics(ts, d) == MetricsLoop(ts, d)

\* The loop body is one try block whose except clause is 'continue': no
\* exception of a ticker leaves calculate_tactical_metrics.
MetricsLoopRaises(ts, d) == FALSE

\* yf.download returned an empty frame: no ticker has a bar.
FrameEmpty(u) == \A i \in DOMAIN u : u[i].bars = 0

TickerList(u) == [i \in DOMAIN u |-> i]

\* self.data before any download, and after one.
NoData == [loaded |-> FALSE, frame |-> <<>>]
Loaded(u) == [loaded |-> TRUE, frame |-> u]

\* download_universe(tickers): self.tickers is set first; the download may
\* raise (data left as it was) or return an empty frame; both return False.
download_universe ==
    /\ tickers' = TickerList(universe)
    /\ \E raises \in BOOLEAN :
          data' = IF raises THEN data ELSE Loaded(universe)
    /\ last_call' = "download_universe" /\ last_raised' = FALSE
    /\ UNCHANGED <<bench, universe, max_candidates, market_regime, regime_signal,
                   regime_info, df_metrics, scan_out, steps, regime_calls,
                   nonTacticalVars>>

calculate_tactical_metrics ==
    /\ last_call' = "calculate_tactical_metrics"
    /\ last_raised' = MetricsLoopRaises(tickers, data)
    /\ df_metrics' = IF MetricsLoopRaises(tickers, data)
                     THEN df_metrics
                     ELSE TacticalMetrics(tickers, data)
    /\ UNCHANGED <<bench, universe, max_candidates, market_regime, regime_signal,
                   tickers, data, regime_info, scan_out, steps, regime_calls,
                   nonTacticalVars>>

(***************************************************************************)
(* The five radars: a filter over the metrics rows, a tag and a score      *)
(* (score in tenths).                                                      *)
(***************************************************************************)
Abs(x) == IF x < 0 THEN -x ELSE x

Radar1Filter(r) == r.precio > r.EMA_100 /\ r.precio < r.ema_50 /\ r.rsi < 40
Radar1Score(r) ==
    500 + (40 - r.rsi) * 10 + ((r.EMA_100 - r.precio) * 2000) \div r.precio

Radar2FilterAnyRsi(r) ==
    /\ r.macd_hist > 0 /\ r.macd_hist < 10 /\ r.macd_hist_prev <= 0
    /\ r.adx > 20

\* macd_hist is in tenths: 0 < macd_hist < 1 reads 0 < macd_hist < 10.
Radar2Filter(r) ==
    /\ r.macd_hist > 0 /\ r.macd_hist < 10 /\ r.macd_hist_prev <= 0
    /\ r.adx > 20 /\ r.rsi > 50
Radar2Score(r) == 600 + (r.adx - 20) * 15 + (r.rsi - 50) * 5

Radar3Filter(r) == r.precio < r.EMA_100 /\ r.precio > r.ema_50 /\ r.rsi > 60
Radar3Score(r) ==
    500 + (r.rsi - 60) * 10 + ((r.precio - r.EMA_100) * 2000) \div r.precio

Radar4Filter(r) ==
    /\ r.macd_hist < 0 /\ r.macd_hist > -10 /\ r.macd_hist_prev >= 0
    /\ r.adx > 20 /\ r.rsi < 50
Radar4Score(r) == 600 + (r.adx - 20) * 15 + (50 - r.rsi) * 5

Radar5Filter(r) == r.adx < 20 /\ r.rsi > 35 /\ r.rsi < 65
ema_crosses(r) ==
    IF \/ (r.precio > r.ema_20 /\ r.precio_prev <= r.ema_20_prev)
       \/ (r.precio < r.ema_20 /\ r.precio_prev >= r.ema_20_prev)
    THEN 1 ELSE 0
Radar5Score(r) ==
    400 + (20 - r.adx) * 20 - Abs(50 - r.rsi) * 5 + ema_crosses(r) * 100

RadarNames ==
    <<"Reversion Alcista", "Ignicion Momentum", "Reversion Bajista",
      "Ruptura Bajista", "Mercado Lateral">>

RadarMethods ==
    <<"radar_1_reversion_alcista", "radar_2_ignicion_momentum",
      "radar_3_reversion_bajista", "radar_4_ruptura_bajista",
      "radar_5_mercado_lateral">>

RadarFilter(k, r) ==
    CASE k = 1 -> Radar1Filter(r)
      [] k = 2 -> Radar2Filter(r)
      [] k = 3 -> Radar3Filter(r)
      [] k = 4 -> Radar4Filter(r)
      [] k = 5 -> Radar5Filter(r)

RadarScore(k, r) ==
    CASE k = 1 -> Radar1Score(r)
      [] k = 2 -> Radar2Score(r)
      [] k = 3 -> Radar3Score(r)
      [] k = 4 -> Radar4Score(r)
      [] k = 5 -> Radar5Score(r)

\* A matched row, tagged: filtered['radar'] = ..., filtered['score'] = ...
Tagged(k, r) ==
    [ticker |-> r.ticker, radar |-> RadarNames[k], score |-> RadarScore(k, r),
     precio |-> r.precio, rsi |-> r.rsi, adx |-> r.adx]

\* radar_k(df_metrics): the matching rows, in table order.
RECURSIVE RunRadar(_, _)
RunRadar(k, rows) ==
    IF rows = <<>>
    THEN <<>>
    ELSE (IF RadarFilter(k, Head(rows)) THEN <<Tagged(k, Head(rows))>> ELSE <<>>)
         \o RunRadar(k, Tail(rows))

RegimeRadarsAllRun(regime) == <<1, 2, 3, 4, 5>>

\* EJECUTAR RADARES APROPIADOS SEGUN REGIMEN: the radars run for a regime
\* (the final else branch takes every regime that is neither of the two).
RegimeRadars(regime) ==
    IF regime = "ALCISTA" THEN <<1, 2>>
    ELSE IF regime = "BAJISTA" THEN <<3, 4>>
    ELSE <<5>>

\* all_candidates after the radars ks ran over rows (pd.concat in order).
RECURSIVE ConcatRadars(_, _)
ConcatRadars(ks, rows) ==
    IF ks = <<>>
    THEN <<>>
    ELSE RunRadar(Head(ks), rows) \o ConcatRadars(Tail(ks), rows)

\* radars_used: the radars that returned at least one row.
RECURSIVE RadarsUsed(_, _)
RadarsUsed(ks, rows) ==
    IF ks = <<>>
    THEN <<>>
    ELSE (IF RunRadar(Head(ks), rows) # <<>> THEN <<Head(ks)>> ELSE <<>>)
         \o RadarsUsed(Tail(ks), rows)

\* ', '.join(radars_used) if radars_used else 'NONE'
RadarLabel(used) ==
    IF used = <<>> THEN <<"NONE">> ELSE [i \in DOMAIN used |-> RadarNames[used[i]]]

\* rows without its i-th row.
RemoveAt(rows, i) == SubSeq(rows, 1, i - 1) \o SubSeq(rows, i + 1, Len(rows))

\* The orders sort_values('score', ascending=False) may leave the rows in:
\* every arrangement with non-increasing scores (ties in any order).
RECURSIVE SortedByScore(_)
SortedByScore(rows) ==
    IF rows = <<>>
    THEN {<<>>}
    ELSE UNION {{<<rows[i]>> \o rest : rest \in SortedByScore(RemoveAt(rows, i))} :
                   i \in {j \in DOMAIN rows :
                             \A k \in DOMAIN rows : rows[j].score >= rows[k].score}}

\* .head(n)
HeadRows(rows, n) == SubSeq(rows, 1, Min(n, Len(rows)))

TickerColumn(rows) == [i \in DOMAIN rows |-> rows[i].ticker]

RegimeAbortsNever(info) == FALSE

\* if regime == 'UNKNOWN': return [], pd.DataFrame(), 'NONE'
RegimeAborts(info) == info.regime = "UNKNOWN"

EmptyScan == [candidates |-> <<>>, table |-> <<>>, label |-> <<"NONE">>]

\* run_tactical_scan(tickers, period, max_candidates), start to return.
run_tactical_scan ==
    LET info == RegimeResult(bench) IN
    /\ regime_info' = info
    /\ IF BenchRaises(bench)
       THEN UNCHANGED <<market_regime, regime_signal>>
       ELSE market_regime' = info.regime /\ regime_signal' = info.signal
    /\ IF RegimeAborts(info)
       THEN \* "No se pudo determinar el regimen. Abortando."
            /\ scan_out' = EmptyScan
            /\ steps' = {"regime"}
            /\ UNCHANGED <<tickers, data, df_metrics>>
       ELSE \E raises \in BOOLEAN :
            /\ tickers' = TickerList(universe)
            /\ data' = IF raises THEN data ELSE Loaded(universe)
            /\ IF raises \/ FrameEmpty(universe)
               THEN /\ scan_out' = EmptyScan
                    /\ steps' = {"regime", "download"}
                    /\ UNCHANGED df_metrics
               ELSE LET m    == TacticalMetrics(TickerList(universe), Loaded(universe))
                        ks   == RegimeRadars(info.regime)
                        all  == ConcatRadars(ks, m)
                        used == RadarsUsed(ks, m)
                        ran  == {"regime", "download", "metrics"}
                    IN  /\ df_metrics' = m
                        /\ IF m = <<>>
                           THEN /\ scan_out' = [EmptyScan EXCEPT !.table = m]
                                /\ steps' = ran
                           ELSE /\ steps' = ran \cup {RadarMethods[ks[i]] : i \in DOMAIN ks}
                                /\ IF all = <<>>
                                   THEN scan_out' = [candidates |-> <<>>, table |-> m,
                                                     label |-> RadarLabel(used)]
                                   ELSE \E sorted \in SortedByScore(all) :
                                          LET top == HeadRows(sorted, max_candidates)
                                          IN  scan_out' = [candidates |-> TickerColumn(top),
                                                           table |-> top,
                                                           label |-> RadarLabel(used)]
    /\ regime_calls' = Min(regime_calls + 1, MaxRegimeCalls)
    /\ last_call' = "run_tactical_scan" /\ last_raised' = FALSE
    /\ UNCHANGED <<bench, universe, max_candidates, nonTacticalVars>>

(***************************************************************************)
(* MarketRadar.calculate_candidate_score and the SentimentAnalyzer it asks *)
(* (scores in tenths; roc_10d in whole percent, rvol in tenths).           *)
(***************************************************************************)

\* Value returned when the Fear & Greed source cannot be read.
FallbackSentiment == 50

IsCrypto(u) == u = "crypto100"            \* 'crypto' in self.universe.lower()

NoAnalyzer == [available |-> FALSE, cache |-> <<>>]
EmptyCache == <<>>

\* get_fear_greed_stocks / get_fear_greed_crypto for cache key k: the cached
\* record if there is one, else the fetched value, stored; else the fallback.
FearGreedValue(cache, k, feed) ==
    IF k \in DOMAIN cache THEN cache[k]
    ELSE IF feed.ok THEN feed.value
    ELSE FallbackSentiment

FearGreedCache(cache, k, feed) ==
    IF k \in DOMAIN cache \/ ~feed.ok
    THEN cache
    ELSE [x \in DOMAIN cache \cup {k} |-> IF x = k THEN feed.value ELSE cache[x]]

SentimentKey(u) == IF IsCrypto(u) THEN "crypto" ELSE "stocks"

\* Ajustar score basado en sentimiento
SentimentBoost(sentiment_value) ==
    IF sentiment_value < 25 THEN 100
    ELSE IF sentiment_value < 40 THEN 50
    ELSE IF sentiment_value > 75 THEN -100
    ELSE IF sentiment_value > 60 THEN -50
    ELSE 0

\* Series.clip(lo, hi)
Clip(x, lo, hi) == IF x < lo THEN lo ELSE IF x > hi THEN hi ELSE x

BoolInt(b) == IF b THEN 1 ELSE 0          \* .astype(int)

ScoreMomentum(r) == Clip(r.roc_10d, -10, 25) * 7
ScoreVolume(r) == Clip(r.rvol - 10, 0, 50) * 3
ScoreTrend(r) == BoolInt(r.above_sma50) * 100 + BoolInt(r.above_sma200) * 100
ScoreSignals(r) == BoolInt(r.breakout_up) * 150 + BoolInt(r.golden_cross) * 150

ScoreBaseUnclipped(r) ==
    ScoreMomentum(r) + ScoreVolume(r) + ScoreTrend(r) + ScoreSignals(r)

\* Score base
ScoreBase(r) ==
    Clip(ScoreMomentum(r) + ScoreVolume(r) + ScoreTrend(r) + ScoreSignals(r), 0, 900)

\* APLICAR AJUSTE DE SENTIMIENTO
FinalScore(r, sentiment_boost) == Clip(ScoreBase(r) + sentiment_boost, 0, 1000)

\* pd.cut(score, bins=[0, 50, 70, 100], labels=['BAJA', 'MEDIA', 'ALTA']):
\* the bins are open on the left and closed on the right, and a value in no
\* bin gets no label (NaN).
Confianza(score) ==
    IF score > 0 /\ score <= 500 THEN "BAJA"
    ELSE IF score > 500 /\ score <= 700 THEN "MEDIA"
    ELSE IF score > 700 /\ score <= 1000 THEN "ALTA"
    ELSE "NaN"

ScoredRow(r, sentiment_boost) ==
    [roc_10d |-> r.roc_10d, rvol |-> r.rvol, above_sma50 |-> r.above_sma50,
     above_sma200 |-> r.above_sma200, breakout_up |-> r.breakout_up,
     golden_cross |-> r.golden_cross,
     score_base |-> ScoreBase(r),
     score |-> FinalScore(r, sentiment_boost),
     confianza |-> Confianza(FinalScore(r, sentiment_boost))]

\* calculate_candidate_score(df_metrics), start to return.
calculate_candidate_score ==
    LET key   == SentimentKey(radar_universe)
        cache == sentiment_analyzer.cache
        value == FearGreedValue(cache, key, sentiment_feed)
        boost == IF sentiment_analyzer.available THEN SentimentBoost(value) ELSE 0
    IN  /\ sentiment_analyzer' =
              IF sentiment_analyzer.available
              THEN [sentiment_analyzer EXCEPT
                        !.cache = FearGreedCache(cache, key, sentiment_feed)]
              ELSE sentiment_analyzer
        /\ sentiment_context' =
              IF sentiment_analyzer.available THEN <<value>> ELSE sentiment_context
        /\ scored' = [i \in DOMAIN candidates_in |-> ScoredRow(candidates_in[i], boost)]
        /\ last_call' = "calculate_candidate_score" /\ last_raised' = FALSE
        /\ UNCHANGED <<sentiment_feed, radar_universe, candidates_in, nonScorerVars>>

\* MarketRadar.__init__ with every analyzer cache persisting in the new object.
KeptSentimentAnalyzer(old, available) ==
    [available |-> available, cache |-> old.cache]

\* MarketRadar.__init__: SentimentAnalyzer() starts with self.cache = {};
\* without the market_context import the radar has no analyzer.
NewSentimentAnalyzer(old, available) ==
    [available |-> available, cache |-> EmptyCache]

\* radar = MarketRadar(universe=u), as every scan cycle begins.
market_radar_init ==
    \E u \in {"sp500", "crypto100"}, available \in BOOLEAN :
        /\ radar_universe' = u
        /\ sentiment_analyzer' = NewSentimentAnalyzer(sentiment_analyzer, available)
        /\ sentiment_context' = <<>>
        /\ last_call' = "MarketRadar" /\ last_raised' = FALSE
        /\ UNCHANGED <<sentiment_feed, candidates_in, scored, nonScorerVars>>

\* radar.scan(...), step 5, on the radar the cycle has just built.
radar_scan ==
    /\ last_call = "MarketRadar"
    /\ calculate_candidate_score

ScorerIdle ==
    /\ sentiment_feed = [ok |-> FALSE, value |-> 0]
    /\ radar_universe = "sp500"
    /\ sentiment_analyzer = NoAnalyzer
    /\ sentiment_context = <<>>
    /\ candidates_in = <<>>
    /\ scored = <<>>

(***************************************************************************)
(* SVGASystem.generate_signals: the rule cascade over the latest two rows  *)
(* of an asset's indicator frame.  An indicator without a value is NaN.    *)
(***************************************************************************)

\* np.nan: the value of an indicator that is not defined on a row.
NaN == -9999

\* Comparisons in which an operand may be NaN are False.
Le(a, b) == a # NaN /\ b # NaN /\ a <= b
Ge(a, b) == a # NaN /\ b # NaN /\ a >= b

Alert(type, priority) == [type |-> type, priority |-> priority]

AddAlert(sg, type, priority) ==
    [sg EXCEPT !.alerts = Append(@, Alert(type, priority))]

\* FILTRO 1: TENDENCIA DE LARGO PLAZO
LongTermTrend(b) ==
    IF b.ema_50 # NaN /\ b.ema_200 # NaN
    THEN (IF b.ema_50 > b.ema_200 THEN "ALCISTA" ELSE "BAJISTA")
    ELSE "INDEFINIDO"

\* FILTRO 2: FUERZA DE TENDENCIA (ADX)
AdxRegime(b) ==
    IF b.adx # NaN
    THEN (IF b.adx > 40 THEN "TENDENCIA_FUERTE"
          ELSE IF b.adx > 25 THEN "TENDENCIA_MODERADA"
          ELSE IF b.adx > 20 THEN "TENDENCIA_DEBIL"
          ELSE "LATERAL")
    ELSE "INDEFINIDO"

\* signals = {...}: the record before any rule ran.
NewSignals(b) ==
    [alerts |-> <<>>, signal |-> 0, priority |-> "LOW",
     long_term_trend |-> LongTermTrend(b), market_regime |-> AdxRegime(b),
     recommendation |-> "MANTENER"]

\* 1. ALERTA DE ANOMALIA (DIVERGENCIA RSI)
DivergenceRule(sg, b) ==
    IF b.rsi = NaN THEN sg
    ELSE IF b.rsi > 70
    THEN (IF b.close > b.close_mean10 /\ b.rsi < b.rsi_mean10
          THEN [AddAlert(sg, "DIVERGENCIA_BAJISTA", "HIGH")
                    EXCEPT !.signal = -1, !.priority = "HIGH"]
          ELSE AddAlert(sg, "SOBRECOMPRA", "MEDIUM"))
    ELSE IF b.rsi < 30
    THEN (IF b.close < b.close_mean10 /\ b.rsi > b.rsi_mean10
          THEN [AddAlert(sg, "DIVERGENCIA_ALCISTA", "HIGH")
                    EXCEPT !.signal = 1, !.priority = "HIGH"]
          ELSE AddAlert(sg, "SOBREVENTA", "MEDIUM"))
    ELSE sg

BreakoutRuleOverwrites(sg, b) ==
    IF b.bbl # NaN /\ b.bbu # NaN /\ b.obv # NaN
    THEN (IF b.close > b.bbu /\ Le(b.prev_close, b.prev_bbu)
          THEN (IF b.obv > b.obv_mean5
                THEN [AddAlert(sg, "RUPTURA_ALCISTA_CONFIRMADA", "HIGH")
                          EXCEPT !.signal = 1, !.priority = "HIGH"]
                ELSE sg)
          ELSE IF b.close < b.bbl /\ Ge(b.prev_close, b.prev_bbl)
          THEN (IF b.obv < b.obv_mean5
                THEN [AddAlert(sg, "RUPTURA_BAJISTA_CONFIRMADA", "HIGH")
                          EXCEPT !.signal = -1, !.priority = "HIGH"]
                ELSE sg)
          ELSE sg)
    ELSE sg

\* 2. ALERTA DE RUPTURA CONFIRMADA (Bandas de Bollinger + OBV)
BreakoutRule(sg, b) ==
    IF b.bbl # NaN /\ b.bbu # NaN /\ b.obv # NaN
    THEN (IF b.close > b.bbu /\ Le(b.prev_close, b.prev_bbu)
          THEN (IF b.obv > b.obv_mean5
                THEN LET a == AddAlert(sg, "RUPTURA_ALCISTA_CONFIRMADA", "HIGH")
                     IN  IF sg.signal = 0    \* No sobrescribir senal de divergencia
                         THEN [a EXCEPT !.signal = 1, !.priority = "HIGH"]
                         ELSE a
                ELSE sg)
          ELSE IF b.close < b.bbl /\ Ge(b.prev_close, b.prev_bbl)
          THEN (IF b.obv < b.obv_mean5
                THEN LET a == AddAlert(sg, "RUPTURA_BAJISTA_CONFIRMADA", "HIGH")
                     IN  IF sg.signal = 0
                         THEN [a EXCEPT !.signal = -1, !.priority = "HIGH"]
                         ELSE a
                ELSE sg)
          ELSE sg)
    ELSE sg

MacdRuleMedium(sg, b) ==
    IF b.macd_hist = NaN THEN sg
    ELSE IF b.macd_hist > 0 /\ Le(b.prev_hist, 0)
    THEN LET a == AddAlert(sg, "MACD_CRUCE_ALCISTA", "MEDIUM")
         IN  IF sg.signal = 0 /\ sg.market_regime # "LATERAL"
             THEN [a EXCEPT !.signal = 1, !.priority = "MEDIUM"]
             ELSE a
    ELSE IF b.macd_hist < 0 /\ Ge(b.prev_hist, 0)
    THEN LET a == AddAlert(sg, "MACD_CRUCE_BAJISTA", "MEDIUM")
         IN  IF sg.signal = 0 /\ sg.market_regime # "LATERAL"
             THEN [a EXCEPT !.signal = -1, !.priority = "MEDIUM"]
             ELSE a
    ELSE sg

\* 3. SENALES DE MACD (histogram in tenths)
MacdRule(sg, b) ==
    IF b.macd_hist = NaN THEN sg
    ELSE IF b.macd_hist > 0 /\ Le(b.prev_hist, 0)
    THEN LET a == AddAlert(sg, "MACD_CRUCE_ALCISTA", "MEDIUM")
         IN  IF sg.signal = 0 /\ sg.market_regime # "LATERAL"
             THEN [a EXCEPT !.signal = 1]
             ELSE a
    ELSE IF b.macd_hist < 0 /\ Ge(b.prev_hist, 0)
    THEN LET a == AddAlert(sg, "MACD_CRUCE_BAJISTA", "MEDIUM")
         IN  IF sg.signal = 0 /\ sg.market_regime # "LATERAL"
             THEN [a EXCEPT !.signal = -1]
             ELSE a
    ELSE sg

LateralRuleSkipped(sg) == sg

\* 4. APLICAR FILTROS DE VALIDACION: lateral market
LateralRule(sg) ==
    IF sg.market_regime = "LATERAL"
    THEN LET a == AddAlert(sg, "MERCADO_LATERAL", "LOW")
         IN  IF Abs(sg.signal) = 1 /\ sg.priority # "HIGH"
             THEN [a EXCEPT !.signal = 0]
             ELSE a
    ELSE sg

\* Validar alineacion con tendencia de largo plazo
CounterTrendRule(sg) ==
    IF sg.long_term_trend = "BAJISTA" /\ sg.signal = 1
    THEN AddAlert(sg, "ALERTA_CONTRA_TENDENCIA", "MEDIUM")
    ELSE IF sg.long_term_trend = "ALCISTA" /\ sg.signal = -1
    THEN AddAlert(sg, "ALERTA_CONTRA_TENDENCIA", "MEDIUM")
    ELSE sg

\* 5. SENAL FINAL
Recommend(sg) ==
    [sg EXCEPT !.recommendation =
        IF sg.signal = 1 THEN "COMPRAR"
        ELSE IF sg.signal = -1 THEN "VENDER"
        ELSE "MANTENER"]

NeutralStateSkipped(sg) == sg

\* Si no hay alertas, agregar estado neutral
NeutralState(sg) ==
    IF sg.alerts = <<>> THEN AddAlert(sg, "SIN_SENALES", "LOW") ELSE sg

\* The Signal Record generate_signals returns for the rows b.
SignalRecord(b) ==
    NeutralState(Recommend(CounterTrendRule(LateralRule(
        MacdRule(BreakoutRule(DivergenceRule(NewSignals(b), b), b), b)))))

generate_signals ==
    /\ signals' = SignalRecord(bars_in)
    /\ last_call' = "generate_signals" /\ last_raised' = FALSE
    /\ UNCHANGED <<bars_in, nonSignalVars>>

NoBars ==
    [close |-> 0, prev_close |-> 0, close_mean10 |-> 0, ema_50 |-> NaN,
     ema_200 |-> NaN, adx |-> NaN, rsi |-> NaN, rsi_mean10 |-> NaN, bbl |-> NaN,
     bbu |-> NaN, prev_bbl |-> NaN, prev_bbu |-> NaN, obv |-> NaN,
     obv_mean5 |-> NaN, macd_hist |-> NaN, prev_hist |-> NaN]

SignalsIdle == bars_in = NoBars /\ signals = NewSignals(NoBars)

(***************************************************************************)
(* DetectorAlertasAvanzadas: the checks run over a batch of analysed       *)
(* assets.  A metrics dict is a record over every key the checks read; a   *)
(* key the dict does not hold has the value Absent.  Prices and volumes    *)
(* are whole numbers, atr_percent is in tenths of a percent.               *)
(***************************************************************************)

\* The value of a key that a dict does not hold.
Absent == -9998

\* dict.get(key, default)
Get(m, key, default) == IF m[key] = Absent THEN default ELSE m[key]

MetricKeys ==
    {"atr_percent", "volume", "volume_sma_20", "ema_50", "ema_200", "rsi",
     "macd_histogram", "adx", "stoch_k", "close", "close_prev"}

\* {}: a dict without any key.
EmptyMetrics == [k \in MetricKeys |-> Absent]

Registro(tipo, ticker, severidad) ==
    [tipo |-> tipo, ticker |-> ticker, severidad |-> severidad]

\* self.anomalias, self.oportunidades, self.alertas_detectadas = [], [], []
DetectorVacio == [anomalias |-> <<>>, oportunidades |-> <<>>, alertas |-> <<>>]

\* _detectar_volatilidad_anormal measuring the increase from a 4% baseline.
DetectarVolatilidadFromFour(d, ticker, metrics) ==
    LET atr_percent == Get(metrics, "atr_percent", 0)
        aumento_x40 == (atr_percent - 40) * 100
    IN  IF atr_percent > 50 /\ aumento_x40 > 25 * 40
        THEN [d EXCEPT !.anomalias = Append(@,
                 Registro("VOLATILIDAD_AUMENTADA", ticker,
                          IF aumento_x40 > 50 * 40 THEN "ALTA" ELSE "MEDIA"))]
        ELSE d

\* _detectar_volatilidad_anormal: aumento_pct = ((atr_percent - 3.0) / 3.0) * 100
DetectarVolatilidadAnormal(d, ticker, metrics) ==
    LET atr_percent == Get(metrics, "atr_percent", 0)
        aumento_x30 == (atr_percent - 30) * 100      \* aumento_pct * 30
    IN  IF atr_percent > 50 /\ aumento_x30 > 25 * 30
        THEN [d EXCEPT !.anomalias = Append(@,
                 Registro("VOLATILIDAD_AUMENTADA", ticker,
                          IF aumento_x30 > 50 * 30 THEN "ALTA" ELSE "MEDIA"))]
        ELSE d

\* _detectar_volumen_inusual: rvol = volume / volume_sma_20
DetectarVolumenInusual(d, ticker, metrics) ==
    LET volume        == Get(metrics, "volume", 0)
        volume_sma_20 == Get(metrics, "volume_sma_20", 0)
    IN  IF volume_sma_20 > 0
        THEN (IF volume * 10 > 30 * volume_sma_20
              THEN [d EXCEPT !.alertas = Append(@,
                       Registro("VOLUMEN_ALTO", ticker, "MEDIA"))]
              ELSE IF volume * 10 < 4 * volume_sma_20
              THEN [d EXCEPT !.alertas = Append(@,
                       Registro("VOLUMEN_BAJO", ticker, "BAJA"))]
              ELSE d)
        ELSE d

\* score_alcista / score_bajista of _detectar_patrones_con_probabilidad, in
\* hundredths, after each of its six blocks.  sc = <<alcista, bajista>>.
PatronEmas(metrics) ==
    LET ema_50  == Get(metrics, "ema_50", 0)
        ema_200 == Get(metrics, "ema_200", 0)
    IN  IF ema_50 # 0 /\ ema_200 # 0                \* if ema_50 and ema_200
        THEN (IF ema_50 > ema_200 THEN <<20, 0>> ELSE <<0, 20>>)
        ELSE <<0, 0>>

PatronRsi(sc, metrics) ==
    LET rsi == Get(metrics, "rsi", 50)
    IN  IF rsi > 55 THEN <<sc[1] + 15, sc[2]>>
        ELSE IF rsi < 45 THEN <<sc[1], sc[2] + 15>>
        ELSE sc

PatronMacd(sc, metrics) ==
    LET macd_hist == Get(metrics, "macd_histogram", 0)
    IN  IF macd_hist > 0 THEN <<sc[1] + 25, sc[2]>> ELSE <<sc[1], sc[2] + 25>>

PatronAdx(sc, metrics) ==
    LET adx     == Get(metrics, "adx", 0)
        ema_50  == Get(metrics, "ema_50", 0)
        ema_200 == Get(metrics, "ema_200", 0)
    IN  IF adx > 25
        THEN <<sc[1] + (IF ema_50 > ema_200 THEN 15 ELSE 0),
               sc[2] + (IF ema_50 < ema_200 THEN 15 ELSE 0)>>
        ELSE sc

PatronVolumen(sc, metrics) ==
    LET volume     == Get(metrics, "volume", 0)
        volume_sma == Get(metrics, "volume_sma_20", 0)
    IN  IF volume_sma > 0 /\ volume * 10 > 12 * volume_sma      \* rvol > 1.2
        THEN (IF sc[1] > sc[2] THEN <<sc[1] + 15, sc[2]>> ELSE <<sc[1], sc[2] + 15>>)
        ELSE sc

PatronStoch(sc, metrics) ==
    LET stoch_k == Get(metrics, "stoch_k", 50)
    IN  IF stoch_k > 60 THEN <<sc[1] + 10, sc[2]>>
        ELSE IF stoch_k < 40 THEN <<sc[1], sc[2] + 10>>
        ELSE sc

\* <<prob_alcista, prob_bajista>>.  int(score * 100) of the float sums is
\* the exact sum except that 45 and 55 may come out as 44 and 54, which is
\* on the same side of the thresholds 60 and 75.
PatronProbabilidades(metrics) ==
    PatronStoch(PatronVolumen(PatronAdx(PatronMacd(PatronRsi(
        PatronEmas(metrics), metrics), metrics), metrics), metrics), metrics)

\* Generar alerta si probabilidad > 60%
DetectarPatronesConProbabilidad(d, ticker, metrics) ==
    LET prob == PatronProbabilidades(metrics)
    IN  IF prob[1] >= 60
        THEN [d EXCEPT !.oportunidades = Append(@,
                 Registro("PATRON_ALCISTA", ticker,
                          IF prob[1] >= 75 THEN "ALTA" ELSE "MEDIA"))]
        ELSE IF prob[2] >= 60
        THEN [d EXCEPT !.oportunidades = Append(@,
                 Registro("PATRON_BAJISTA", ticker,
                          IF prob[2] >= 75 THEN "ALTA" ELSE "MEDIA"))]
        ELSE d

\* _detectar_divergencias: one record per alert whose type holds DIVERGENCIA,
\* with the alert's priority as severity.
RECURSIVE DivergenciasDe(_, _)
DivergenciasDe(ticker, alerts) ==
    IF alerts = <<>>
    THEN <<>>
    ELSE (IF Head(alerts).type \in {"DIVERGENCIA_ALCISTA", "DIVERGENCIA_BAJISTA"}
          THEN <<Registro("DIVERGENCIA_DETECTADA", ticker, Head(alerts).priority)>>
          ELSE <<>>) \o DivergenciasDe(ticker, Tail(alerts))

DetectarDivergencias(d, ticker, sig) ==
    [d EXCEPT !.oportunidades = @ \o DivergenciasDe(ticker, sig.alerts)]

CambiosAbruptosUmbral3(d, ticker, metrics) ==
    LET close      == Get(metrics, "close", 0)
        close_prev == Get(metrics, "close_prev", 0)
        cambio_x   == (close - close_prev) * 100
    IN  IF close_prev > 0 /\ Abs(cambio_x) > 3 * close_prev
        THEN [d EXCEPT !.anomalias = Append(@,
                 Registro("CAMBIO_PRECIO_ABRUPTO", ticker,
                          IF Abs(cambio_x) > 10 * close_prev THEN "ALTA" ELSE "MEDIA"))]
        ELSE d

\* _detectar_cambios_abruptos_precio:
\* cambio_pct = ((close - close_prev) / close_prev) * 100
DetectarCambiosAbruptosPrecio(d, ticker, metrics) ==
    LET close      == Get(metrics, "close", 0)
        close_prev == Get(metrics, "close_prev", 0)
        cambio_x   == (close - close_prev) * 100      \* cambio_pct * close_prev
    IN  IF close_prev > 0 /\ Abs(cambio_x) > 5 * close_prev
        THEN [d EXCEPT !.anomalias = Append(@,
                 Registro("CAMBIO_PRECIO_ABRUPTO", ticker,
                          IF Abs(cambio_x) > 10 * close_prev THEN "ALTA" ELSE "MEDIA"))]
        ELSE d

\* _detectar_rsi_extremo
DetectarRsiExtremo(d, ticker, metrics) ==
    LET rsi == Get(metrics, "rsi", 50)
    IN  IF rsi > 75
        THEN [d EXCEPT !.alertas = Append(@, Registro("RSI_SOBRECOMPRA", ticker, "MEDIA"))]
        ELSE IF rsi < 25
        THEN [d EXCEPT !.alertas = Append(@, Registro("RSI_SOBREVENTA", ticker, "MEDIA"))]
        ELSE d

\* The tickers of a batch, in the order the consolidated dict holds them.
BatchOrder == <<"AAPL", "BTC-USD", "ETH-USD">>

\* An asset the batch does not hold.
NoAsset ==
    [present |-> FALSE, has_metrics |-> FALSE, has_signals |-> FALSE,
     metrics |-> EmptyMetrics, alerts |-> <<>>]

\* The body of the loop over todos_activos.items() for one asset.
DetectarActivo(d, ticker, asset) ==
    IF ~asset.present \/ ~asset.has_metrics \/ ~asset.has_signals
    THEN d
    ELSE LET d1 == DetectarVolatilidadAnormal(d, ticker, asset.metrics)
             d2 == DetectarVolumenInusual(d1, ticker, asset.metrics)
             d3 == DetectarPatronesConProbabilidad(d2, ticker, asset.metrics)
             d4 == DetectarDivergencias(d3, ticker, asset)
             d5 == DetectarCambiosAbruptosPrecio(d4, ticker, asset.metrics)
         IN  DetectarRsiExtremo(d5, ticker, asset.metrics)

RECURSIVE DetectarActivos(_, _, _)
DetectarActivos(d, order, batch) ==
    IF order = <<>>
    THEN d
    ELSE DetectarActivos(DetectarActivo(d, Head(order), batch[Head(order)]),
                         Tail(order), batch)

\* btc_data.get('latest_metrics', {})
LatestMetrics(asset) == IF asset.has_metrics THEN asset.metrics ELSE EmptyMetrics

\* btc_change, eth_change of _detectar_correlaciones_rotas
CloseChange(m) == Get(m, "close", 0) - Get(m, "close_prev", 0)

OppositeMoves(batch) ==
    LET btc_change == CloseChange(LatestMetrics(batch["BTC-USD"]))
        eth_change == CloseChange(LatestMetrics(batch["ETH-USD"]))
    IN  /\ batch["BTC-USD"].present /\ batch["ETH-USD"].present
        /\ \/ btc_change > 0 /\ eth_change < 0
           \/ btc_change < 0 /\ eth_change > 0

\* change / metrics.get('close_prev', 1) divides by a close_prev that is 0.
CorrelacionesRaises(batch) ==
    /\ OppositeMoves(batch)
    /\ \/ Get(LatestMetrics(batch["BTC-USD"]), "close_prev", 1) = 0
       \/ Get(LatestMetrics(batch["ETH-USD"]), "close_prev", 1) = 0

\* abs(pct) > 2 with pct = (change / close_prev) * 100
MovesOver2Pct(m) ==
    Abs(CloseChange(m)) * 100 > 2 * Abs(Get(m, "close_prev", 1))

\* _detectar_correlaciones_rotas, when it does not raise
DetectarCorrelacionesRotas(d, batch) ==
    IF /\ OppositeMoves(batch)
       /\ MovesOver2Pct(LatestMetrics(batch["BTC-USD"]))
       /\ MovesOver2Pct(LatestMetrics(batch["ETH-USD"]))
    THEN [d EXCEPT !.anomalias = Append(@,
             Registro("CORRELACION_ROTA", "BTC-USD / ETH-USD", "MEDIA"))]
    ELSE d

\* A call that goes on appending to the lists the object already holds.
ListsAtStartKept(det) == det

\* self.alertas_detectadas = [], self.anomalias = [], self.oportunidades = []
ListsAtStart(det) == DetectorVacio

\* A dict returned earlier whose lists are still the object's lists.
ReturnedListsShared(returned, now) == now

\* What a dict returned by an earlier call reads once the object holds the
\* lists now: the call bound the three attributes to new lists, so the lists
\* in the dict are no longer the object's.
ReturnedLists(returned, now) == returned

\* detectar_todas_alertas(datos_completos), start to return or raise.
detectar_todas_alertas ==
    LET d == DetectarActivos(ListsAtStart(detector), BatchOrder, datos_completos)
    IN  /\ IF CorrelacionesRaises(datos_completos)
           THEN /\ detector' = d
                /\ last_raised' = TRUE
                /\ alertas_out' = ReturnedLists(alertas_out, d)
                /\ earlier_out' = ReturnedLists(earlier_out, d)
           ELSE /\ detector' = DetectarCorrelacionesRotas(d, datos_completos)
                /\ alertas_out' = detector'
                /\ earlier_out' = ReturnedLists(alertas_out, detector')
                /\ last_raised' = FALSE
        /\ last_call' = "detectar_todas_alertas"
        /\ UNCHANGED <<datos_completos, nonDetectorVars>>

DetectorIdle ==
    /\ datos_completos = [t \in {BatchOrder[i] : i \in DOMAIN BatchOrder} |-> NoAsset]
    /\ detector = DetectorVacio
    /\ alertas_out = DetectorVacio
    /\ earlier_out = DetectorVacio

(***************************************************************************)
(* SVGASystem: the asset entries analyze_portfolio and analyze_market      *)
(* build.  A frame is the tail of df, oldest row first; a row holds close,  *)
(* volume and the indicator columns, NaN while an indicator warms up.      *)
(***************************************************************************)

\* The indicator columns _extract_latest_metrics copies and the keys it
\* gives them; of the keys it writes, these are the ones the detector's
\* checks compare (price, ema_12, ema_26, macd, obv, atr and the Bollinger
\* bands are written too and compared nowhere).
IndicatorColumns ==
    <<<<"EMA_50", "ema_50">>, <<"EMA_200", "ema_200">>, <<"RSI_14", "rsi">>,
      <<"MACDh_12_26_9", "macd_histogram">>, <<"ADX_14", "adx">>>>

ColumnOf(name) ==
    CHOOSE c \in {IndicatorColumns[i][1] : i \in DOMAIN IndicatorColumns} :
        \E i \in DOMAIN IndicatorColumns :
            IndicatorColumns[i] = <<c, name>>

\* An extraction that also passes on both closes and the ATR as a percentage
\* of the close.
ExtractLatestMetricsWithCloses(df) ==
    LET latest == df[Len(df)]
    IN  [k \in MetricKeys |->
            IF k = "volume" THEN latest["volume"]
            ELSE IF k = "close" THEN latest["close"]
            ELSE IF k = "close_prev" THEN (IF Len(df) > 1 THEN df[Len(df) - 1]["close"] ELSE Absent)
            ELSE IF k = "atr_percent"
            THEN (IF latest["ATR_14"] = NaN THEN Absent
                  ELSE (latest["ATR_14"] * 1000) \div latest["close"])
            ELSE IF k \in {IndicatorColumns[i][2] : i \in DOMAIN IndicatorColumns}
            THEN (IF latest[ColumnOf(k)] = NaN THEN Absent ELSE latest[ColumnOf(k)])
            ELSE Absent]

\* _extract_latest_metrics(df) for a frame with a row: volume, and every
\* indicator whose latest value is not NaN.
ExtractLatestMetrics(df) ==
    LET latest == df[Len(df)]
    IN  [k \in MetricKeys |->
            IF k = "volume" THEN latest["volume"]
            ELSE IF k \in {IndicatorColumns[i][2] : i \in DOMAIN IndicatorColumns}
            THEN (IF latest[ColumnOf(k)] = NaN THEN Absent ELSE latest[ColumnOf(k)])
            ELSE Absent]

\* The entry of one ticker: df.iloc[-1] of an empty frame raises and the
\* ticker gets {"error": ...}; the alerts of the entry are those of
\* generate_signals.
AssetEntry(f) ==
    IF f.df = <<>>
    THEN [present |-> TRUE, has_metrics |-> FALSE, has_signals |-> FALSE,
          metrics |-> EmptyMetrics, alerts |-> <<>>]
    ELSE [present |-> TRUE, has_metrics |-> TRUE, has_signals |-> TRUE,
          metrics |-> ExtractLatestMetrics(f.df), alerts |-> f.alerts]

AnalysedAssets(frames) == [t \in DOMAIN frames |-> AssetEntry(frames[t])]

\* analyze_portfolio and analyze_market, as the detector's input.
analyze_assets ==
    /\ datos_completos' = AnalysedAssets(asset_frames)
    /\ last_call' = "analyze_assets" /\ last_raised' = FALSE
    /\ UNCHANGED <<detector, alertas_out, earlier_out, nonDetectorVars>>

NoFrame == [df |-> <<>>, alerts |-> <<>>]
SvgaIdle == asset_frames = [t \in {BatchOrder[i] : i \in DOMAIN BatchOrder} |-> NoFrame]

(***************************************************************************)
(* run_integrated_analysis, cycle after cycle: SVGASystem.run exports the  *)
(* analysis of the cycle and the two JSON files are read back to feed      *)
(* generar_resumen_ejecutivo.  An analysis is identified by the number of  *)
(* the cycle that produced it; a file holds the analysis last written to   *)
(* it.  Directories are numbered; directory d + 1 is the directory         *)
(* 'c:/Users/mikia/analisis-tecnico' below directory d, if it exists.      *)
(***************************************************************************)

\* Bounds of the cycles and of the directories told apart.
MaxCycles == 3
MaxDir == 2

Dirs == 0..MaxDir

\* No file, and no analysis read.
Missing == 0

NoFiles == [portfolio |-> Missing, market |-> Missing]

\* Where open("c:/Users/mikia/analisis-tecnico/...") writes for a process
\* running in directory d: one fixed directory where drive letters exist, a
\* path below the working directory elsewhere.
ExportDir(d) == IF drive_paths THEN 0 ELSE d + 1

\* export_results: the portfolio JSON is written first, then the market
\* JSON, then the two reports; 'written' is the number of JSON files
\* written before an open or a dump raised (2: none raised before the
\* reports).
ExportedDisk(written) ==
    IF written = 0
    THEN disk
    ELSE [disk EXCEPT ![ExportDir(cwd)] =
            [portfolio |-> ciclo,
             market |-> IF written = 2 THEN ciclo ELSE @.market]]

\* run_integrated_analysis reading the files of the working directory where
\* SVGASystem.run wrote those of the export directory.
ReadBackDir(d) == d

\* open('portfolio_analisis.json') and open('mercado_analisis.json') in the
\* working directory; a file that cannot be read leaves its key out.
ReadBack(files, readable) ==
    [portfolio |-> IF readable[1] THEN files[ReadBackDir(cwd)].portfolio ELSE Missing,
     market |-> IF readable[2] THEN files[ReadBackDir(cwd)].market ELSE Missing]

\* One cycle of main(): run_integrated_analysis from the export of SVGASystem
\* to the executive summary.  An exception of the export leaves
\* run_integrated_analysis before the files are read (main() reports it and
\* goes on to the next cycle).
run_integrated_analysis ==
    /\ ciclo <= MaxCycles
    /\ \E written \in 0..2, reports_ok \in BOOLEAN, readable \in BOOLEAN \X BOOLEAN :
          /\ ExportDir(cwd) \notin Dirs => written = 0
          /\ disk' = ExportedDisk(written)
          /\ IF written = 2 /\ reports_ok
             THEN /\ resumen' = [cycle |-> ciclo, fed |-> ReadBack(disk', readable)]
                  /\ last_raised' = FALSE
             ELSE /\ UNCHANGED resumen
                  /\ last_raised' = TRUE
    /\ ciclo' = ciclo + 1
    /\ last_call' = "run_integrated_analysis"
    /\ UNCHANGED <<cwd, drive_paths, nonCycleVars>>

\* The program is stopped and started again from another directory.
start_process ==
    /\ cwd' \in Dirs \ {cwd}
    /\ last_call' = "start_process" /\ last_raised' = FALSE
    /\ UNCHANGED <<ciclo, drive_paths, disk, resumen, nonCycleVars>>

NoResumen == [cycle |-> 0, fed |-> NoFiles]

CyclesIdle ==
    /\ ciclo = 1 /\ cwd = 0 /\ drive_paths = TRUE
    /\ disk = [d \in Dirs |-> NoFiles] /\ resumen = NoResumen

(***************************************************************************)
(* MultiUserAnalysisSystem.run_full_cycle: the main thread obtains the     *)
(* users, scans the market, then analyses every user, one after the other  *)
(* (run_sequential) or on the threads of a ThreadPoolExecutor              *)
(* (run_parallel).  A user is [has_user_id, outcome]; outcome is what the  *)
(* try block of analyze_user meets: "ok" (4 of 4 files uploaded), "partial"*)
(* (fewer uploaded) or "raises".                                           *)
(***************************************************************************)

\* Bounds of the users of a cycle, the worker threads and the cycles.
MaxUsers == 2
MaxWorkers == 2
MaxMultiCycles == 2

UserIds(us) == DOMAIN us

\* self.radar_cache after __init__.
EmptyRadarCache ==
    [sp500 |-> [candidates |-> <<>>, cycle |-> 0],
     crypto |-> [candidates |-> <<>>, cycle |-> 0]]

NoWorkers == <<>>

\* analyze_user up to the try block: user.get('user_id') is None for a record
\* without the key and the banner's user_id[:8] raises TypeError.
AnalyzeUserRaises(u) == ~u.has_user_id

\* The 'success' of the record analyze_user returns: the except clause of its
\* try block returns success False, as does an upload of fewer than 4 files.
AnalyzeUserSuccess(u) == u.outcome = "ok"

\* The try block creates the SVGASystem of the call before run_in_memory;
\* get_user_portfolio_config raising comes first.
CreatesSvga(u) == u.outcome # "raises"

\* PASO 1: self.user_manager.get_all_active_users(); no user aborts the cycle.
get_all_active_users ==
    /\ cycle_pc \in {"idle", "done"} /\ cycles_run < MaxMultiCycles
    /\ cycles_run' = cycles_run + 1
    /\ scans' = 0 /\ analysis_results' = <<>>
    /\ worker' = [i \in UserIds(users) |-> [st |-> "pending", svga |-> 0]]
    /\ IF users = <<>>
       THEN cycle_pc' = "done" /\ cycle_result' = "no_users"
       ELSE cycle_pc' = "radar" /\ cycle_result' = "running"
    /\ last_call' = "get_all_active_users" /\ last_raised' = FALSE
    /\ UNCHANGED <<users, parallel, max_workers, radar_cache, market_candidates,
                   svga_instances, nonMultiUserVars>>

\* PASO 2: run_radar_scan on the main thread.  Each radar that returns is
\* stored in self.radar_cache; a scan that raises ends the cycle at the
\* except clause of run_full_cycle.
run_radar_scan ==
    /\ cycle_pc = "radar"
    /\ scans' = scans + 1
    /\ \E sp \in {<<>>, <<"NVDA">>}, cr \in {<<>>, <<"SOL-USD">>},
          raised \in {"none", "sp500", "crypto"} :
          /\ radar_cache' =
                [sp500 |-> IF raised = "sp500" THEN radar_cache.sp500
                           ELSE [candidates |-> sp, cycle |-> cycles_run],
                 crypto |-> IF raised = "none"
                            THEN [candidates |-> cr, cycle |-> cycles_run]
                            ELSE radar_cache.crypto]
          /\ IF raised = "none"
             THEN /\ market_candidates' = sp \o cr
                  /\ cycle_pc' = "analysis"
                  /\ UNCHANGED cycle_result
             ELSE /\ UNCHANGED market_candidates
                  /\ cycle_pc' = "done" /\ cycle_result' = "error"
          /\ last_raised' = (raised # "none")
    /\ last_call' = "run_radar_scan"
    /\ UNCHANGED <<users, parallel, max_workers, cycles_run, worker, svga_instances,
                   analysis_results, nonMultiUserVars>>

\* if parallel and self.max_workers > 1
UsesThreads == parallel /\ max_workers > 1

Running == {i \in DOMAIN worker : worker[i].st = "running"}

CanStartDuringScan(i) ==
    /\ cycle_pc \in {"radar", "analysis"} /\ UsesThreads
    /\ worker[i].st = "pending"
    /\ \A j \in UserIds(users) : j < i => worker[j].st # "pending"
    /\ Cardinality(Running) < max_workers

\* A thread of the pool takes the next submitted analyze_user call: the pool
\* exists only inside run_parallel, serves the calls in submission order and
\* runs at most max_workers of them at a time.
CanStart(i) ==
    /\ cycle_pc = "analysis" /\ UsesThreads
    /\ worker[i].st = "pending"
    /\ \A j \in UserIds(users) : j < i => worker[j].st # "pending"
    /\ Cardinality(Running) < max_workers

\* analyze_user on a pool thread, up to the creation of its SVGASystem.
worker_start ==
    /\ \E i \in UserIds(users) :
          /\ CanStart(i)
          /\ IF AnalyzeUserRaises(users[i])
             THEN /\ worker' = [worker EXCEPT ![i].st = "raised"]
                  /\ UNCHANGED svga_instances
             ELSE IF CreatesSvga(users[i])
             THEN /\ worker' = [worker EXCEPT ![i] =
                                   [st |-> "running", svga |-> svga_instances + 1]]
                  /\ svga_instances' = svga_instances + 1
             ELSE /\ worker' = [worker EXCEPT ![i].st = "running"]
                  /\ UNCHANGED svga_instances
    /\ last_call' = "worker_start" /\ last_raised' = FALSE
    /\ UNCHANGED <<users, parallel, max_workers, cycle_pc, cycles_run, radar_cache,
                   market_candidates, scans, analysis_results, cycle_result,
                   nonMultiUserVars>>

\* analyze_user on a pool thread, from run_in_memory to its return.
worker_return ==
    /\ cycle_pc = "analysis"
    /\ \E i \in Running : worker' = [worker EXCEPT ![i].st = "returned"]
    /\ last_call' = "worker_return" /\ last_raised' = FALSE
    /\ UNCHANGED <<users, parallel, max_workers, cycle_pc, cycles_run, radar_cache,
                   market_candidates, scans, svga_instances, analysis_results,
                   cycle_result, nonMultiUserVars>>

ResultOf(i, success) == [user |-> i, success |-> success]

\* run_parallel on the main thread: as_completed hands over a finished
\* future; its result is appended, or a failure record when
\* future.result() raises.
collect_result ==
    /\ cycle_pc = "analysis" /\ UsesThreads
    /\ \E i \in UserIds(users) :
          /\ worker[i].st \in {"returned", "raised"}
          /\ analysis_results' =
                Append(analysis_results,
                       ResultOf(i, worker[i].st = "returned"
                                       /\ AnalyzeUserSuccess(users[i])))
          /\ worker' = [worker EXCEPT ![i].st = "collected"]
    /\ last_call' = "collect_result" /\ last_raised' = FALSE
    /\ UNCHANGED <<users, parallel, max_workers, cycle_pc, cycles_run, radar_cache,
                   market_candidates, scans, svga_instances, cycle_result,
                   nonMultiUserVars>>

\* run_sequential on the main thread: one iteration of its loop, the whole
\* analyze_user call.  An exception that leaves analyze_user leaves
\* run_sequential too and ends the cycle at the except clause of
\* run_full_cycle; the results gathered so far are dropped with the frame.
run_sequential_step ==
    /\ cycle_pc = "analysis" /\ ~UsesThreads
    /\ \E i \in UserIds(users) :
          /\ worker[i].st = "pending"
          /\ \A j \in UserIds(users) : j < i => worker[j].st # "pending"
          /\ IF AnalyzeUserRaises(users[i])
             THEN /\ worker' = [worker EXCEPT ![i].st = "raised"]
                  /\ analysis_results' = <<>>
                  /\ cycle_pc' = "done" /\ cycle_result' = "error"
                  /\ last_raised' = TRUE
                  /\ UNCHANGED svga_instances
             ELSE /\ worker' = [worker EXCEPT ![i] =
                                   [st |-> "collected",
                                    svga |-> IF CreatesSvga(users[i])
                                             THEN svga_instances + 1 ELSE 0]]
                  /\ svga_instances' =
                        svga_instances + (IF CreatesSvga(users[i]) THEN 1 ELSE 0)
                  /\ analysis_results' =
                        Append(analysis_results, ResultOf(i, AnalyzeUserSuccess(users[i])))
                  /\ last_raised' = FALSE
                  /\ UNCHANGED <<cycle_pc, cycle_result>>
    /\ last_call' = "run_sequential_step"
    /\ UNCHANGED <<users, parallel, max_workers, cycles_run, radar_cache,
                   market_candidates, scans, nonMultiUserVars>>

\* RESUMEN FINAL: every user has a result; run_full_cycle returns.
cycle_summary ==
    /\ cycle_pc = "analysis"
    /\ \A i \in UserIds(users) : worker[i].st = "collected"
    /\ cycle_pc' = "done" /\ cycle_result' = "ok"
    /\ last_call' = "cycle_summary" /\ last_raised' = FALSE
    /\ UNCHANGED <<users, parallel, max_workers, cycles_run, radar_cache,
                   market_candidates, scans, worker, svga_instances,
                   analysis_results, nonMultiUserVars>>

MultiUserIdle ==
    /\ users = <<>> /\ parallel = FALSE /\ max_workers = 1
    /\ cycle_pc = "idle" /\ cycles_run = 0 /\ radar_cache = EmptyRadarCache
    /\ market_candidates = <<>> /\ scans = 0 /\ worker = NoWorkers
    /\ svga_instances = 0 /\ analysis_results = <<>> /\ cycle_result = "none"

(***************************************************************************)
(* MarketRadar.calculate_radar_metrics over one ticker: the breakout       *)
(* columns.  A bar series is the sequence of its highs and of its lows,    *)
(* oldest bar first, and its latest close.  The other columns of the row   *)
(* are computed from closes and volumes and read neither reference.        *)
(***************************************************************************)

\* Fewer bars than this and the ticker is skipped.
MinRadarBars == 50

\* The window of the breakout reference.
BreakoutWindow == 20

\* series.rolling(w).max().iloc[at - 1]: the largest of the w values ending
\* at position at.
RECURSIVE RollingMax(_, _, _)
RollingMax(series, at, w) ==
    IF w = 1 THEN series[at]
    ELSE Max(series[at], RollingMax(series, at - 1, w - 1))

RECURSIVE RollingMin(_, _, _)
RollingMin(series, at, w) ==
    IF w = 1 THEN series[at]
    ELSE Min(series[at], RollingMin(series, at - 1, w - 1))

High20IncludesLatest(high) == RollingMax(high, Len(high), BreakoutWindow)

\* high_20 = high.rolling(20).max().iloc[-2]
High20(high) == RollingMax(high, Len(high) - 1, BreakoutWindow)

\* low_20 = low.rolling(20).min().iloc[-2]
Low20(low) == RollingMin(low, Len(low) - 1, BreakoutWindow)

\* The row appended for a ticker with bars b.
RadarMetricsRow(b) ==
    [price |-> b.close,
     breakout_up |-> b.close > High20(b.high),
     breakout_down |-> b.close < Low20(b.low)]

\* calculate_radar_metrics(), start to return.
calculate_radar_metrics ==
    /\ radar_metrics' =
          IF Len(radar_bars.high) = 0 \/ Len(radar_bars.high) < MinRadarBars
          THEN <<>>
          ELSE <<RadarMetricsRow(radar_bars)>>
    /\ last_call' = "calculate_radar_metrics" /\ last_raised' = FALSE
    /\ UNCHANGED <<radar_bars, nonRadarMetricsVars>>

NoRadarBars == [high |-> <<>>, low |-> <<>>, close |-> 0]

RadarMetricsIdle == radar_bars = NoRadarBars /\ radar_metrics = <<>>

(***************************************************************************)
(* Specifications of the tactical radar system                             *)
(***************************************************************************)
TacticalObjectInit ==
    /\ market_regime = None /\ regime_signal = None
    /\ tickers = <<>> /\ data = NoData

TacticalResultsInit ==
    /\ regime_info = UnknownRegime /\ df_metrics = <<>> /\ scan_out = EmptyScan
    /\ steps = {} /\ regime_calls = 0

NoCallYet == last_call = None /\ last_raised = FALSE

\* The universes of at most MaxTickers distinct tickers over the feeds F.
Universes(F) == UNION {[1..n -> F] : n \in 0..MaxTickers}

\* Benchmark series of the scan: one per regime, and too-short ones.
ScanBenchInputs ==
    {b \in BenchInputs :
        /\ b.bars = MaxBenchBars \/ (b.bars = MinBenchBars - 1 /\ b.price = 100)
        /\ b.macd_hist = 0 /\ b.adx = 22 /\ b.ema_50 = 100
        /\ b.price + b.EMA_100 = 200}

\* Latest-row values of the tickers of a scan.
\* <<ema_50, EMA_100, macd_hist, macd_hist_prev>>: a pullback in an uptrend
\* with the histogram crossing up, a bounce in a downtrend with it crossing down.
TickerShapes == {<<105, 90, 5, -5>>, <<95, 110, -5, 5>>}
RsiChoices == {30, 45, 55, 70}
TickerAdxChoices == {15, 25}

ScanRows ==
    {[precio |-> 100, precio_prev |-> 97, ema_20 |-> 98, ema_20_prev |-> 98,
      ema_50 |-> sh[1], EMA_100 |-> sh[2], rsi |-> rsi,
      macd_hist |-> sh[3], macd_hist_prev |-> sh[4], adx |-> adx,
      volume |-> 1200, volume_sma_20 |-> 1000] :
        sh \in TickerShapes, rsi \in RsiChoices, adx \in TickerAdxChoices}

ScanFeeds ==
    [present : {TRUE}, bars : {126}, priced : {TRUE}, row : ScanRows,
     macd_df : {TRUE}, adx_df : {TRUE}, has_volume : {TRUE}]

InitScan ==
    /\ bench \in ScanBenchInputs
    /\ universe \in Universes(ScanFeeds)
    /\ max_candidates \in 1..MaxCandidates
    /\ TacticalObjectInit /\ TacticalResultsInit
    /\ ScorerIdle /\ SignalsIdle /\ DetectorIdle /\ RadarMetricsIdle /\ SvgaIdle /\ CyclesIdle /\ MultiUserIdle /\ WindowsIdle /\ NoCallYet

NextScan == run_tactical_scan

SpecScan == InitScan /\ [][NextScan]_vars

InitRegime ==
    /\ bench \in BenchInputs
    /\ universe = <<>>
    /\ max_candidates = 1
    /\ TacticalObjectInit /\ TacticalResultsInit
    /\ ScorerIdle /\ SignalsIdle /\ DetectorIdle /\ RadarMetricsIdle /\ SvgaIdle /\ CyclesIdle /\ MultiUserIdle /\ WindowsIdle /\ NoCallYet

NextRegime == determine_market_regime

SpecRegime == InitRegime /\ [][NextRegime]_vars

\* Feeds of the metrics calculation: absent, empty, short and long series.
MetricsBarChoices == {0, MinTickerBars - 1, MinTickerBars, 119, 120, 126}
MetricsRows == {r \in ScanRows : r.rsi = 45 /\ r.adx = 25 /\ r.ema_50 = 105}
\* Every indicator computed, for each shape of series; and, for a full
\* series, each combination of indicators the library could not compute.
MetricsFeeds ==
    [present : BOOLEAN, bars : MetricsBarChoices, priced : BOOLEAN, row : MetricsRows,
     macd_df : {TRUE}, adx_df : {TRUE}, has_volume : {TRUE}]
    \cup [present : {TRUE}, bars : {126}, priced : {TRUE}, row : MetricsRows,
          macd_df : BOOLEAN, adx_df : BOOLEAN, has_volume : BOOLEAN]

InitMetrics ==
    /\ bench \in {b \in ScanBenchInputs : b.price = 100 /\ b.bars = MaxBenchBars}
    /\ universe \in Universes(MetricsFeeds)
    /\ max_candidates = 1
    /\ TacticalObjectInit /\ TacticalResultsInit
    /\ ScorerIdle /\ SignalsIdle /\ DetectorIdle /\ RadarMetricsIdle /\ SvgaIdle /\ CyclesIdle /\ MultiUserIdle /\ WindowsIdle /\ NoCallYet

NextMetrics == download_universe \/ calculate_tactical_metrics

SpecMetrics == InitMetrics /\ [][NextMetrics]_vars

\* Repeated regime determinations while the provider's answer changes:
\* a long and a too-short history of each trend, with ADX below and above 20.
RunBenchInputs ==
    {b \in BenchInputs :
        /\ b.bars \in {MinBenchBars - 1, MaxBenchBars}
        /\ b.macd_hist = 0 /\ b.adx \in {15, 22} /\ b.ema_50 = 100
        /\ b.price + b.EMA_100 = 200}

\* yf.download(self.benchmark, ...) answers with another series from now on.
benchmark_changes ==
    /\ bench' \in RunBenchInputs \ {bench}
    /\ regime_calls' = 0
    /\ last_call' = "benchmark_changes" /\ last_raised' = FALSE
    /\ UNCHANGED <<universe, max_candidates, market_regime, regime_signal, tickers,
                   data, regime_info, df_metrics, scan_out, steps, nonTacticalVars>>

InitRegimeRuns ==
    /\ bench \in RunBenchInputs
    /\ universe = <<>>
    /\ max_candidates = 1
    /\ TacticalObjectInit /\ TacticalResultsInit
    /\ ScorerIdle /\ SignalsIdle /\ DetectorIdle /\ RadarMetricsIdle /\ SvgaIdle /\ CyclesIdle /\ MultiUserIdle /\ WindowsIdle /\ NoCallYet

NextRegimeRuns == determine_market_regime \/ benchmark_changes

SpecRegimeRuns == InitRegimeRuns /\ [][NextRegimeRuns]_vars

(***************************************************************************)
(* Specifications of the candidate scorer and of the signal generator      *)
(***************************************************************************)

\* A TacticalRadarSystem nobody calls.
NoBench ==
    [bars |-> 0, price |-> 100, ema_50 |-> 100, EMA_100 |-> 100,
     macd_hist |-> 0, adx |-> 20]

TacticalIdle ==
    /\ bench = NoBench /\ universe = <<>> /\ max_candidates = 1
    /\ TacticalObjectInit /\ TacticalResultsInit

\* Fear & Greed readings around the thresholds of the adjustment, and a
\* source that cannot be read.
SentimentFeeds ==
    [ok : {TRUE}, value : {0, 24, 25, 39, 40, 50, 60, 61, 75, 76, 100}]
        \cup {[ok |-> FALSE, value |-> 0]}

RocChoices == {-1000, -10, 0, 10, 20, 26, 1000}     \* percent
RvolChoices == {0, 10, 20, 30, 60, 1000}            \* tenths

CandidateRows ==
    [roc_10d : RocChoices, rvol : RvolChoices, above_sma50 : BOOLEAN,
     above_sma200 : BOOLEAN, breakout_up : BOOLEAN, golden_cross : BOOLEAN]

InitScorer ==
    /\ sentiment_feed \in SentimentFeeds
    /\ radar_universe \in {"sp500", "crypto100"}
    /\ sentiment_analyzer \in [available : BOOLEAN, cache : {EmptyCache}]
    /\ sentiment_context = <<>>
    /\ candidates_in \in {<<r>> : r \in CandidateRows}
    /\ scored = <<>>
    /\ TacticalIdle /\ SignalsIdle /\ DetectorIdle /\ RadarMetricsIdle /\ SvgaIdle /\ CyclesIdle /\ MultiUserIdle /\ WindowsIdle /\ NoCallYet

NextScorer == calculate_candidate_score

SpecScorer == InitScorer /\ [][NextScorer]_vars

\* The scan cycles of run_integrated_analysis: between two cycles the Fear &
\* Greed source may answer something else and the filters may pass other
\* candidates.
MaxCycleCandidates == 2

CycleFeeds ==
    [ok : {TRUE}, value : {10, 50, 90}] \cup {[ok |-> FALSE, value |-> 0]}

CycleRows ==
    {[roc_10d |-> 26, rvol |-> 30, above_sma50 |-> TRUE, above_sma200 |-> TRUE,
      breakout_up |-> FALSE, golden_cross |-> FALSE],
     [roc_10d |-> 10, rvol |-> 10, above_sma50 |-> TRUE, above_sma200 |-> FALSE,
      breakout_up |-> FALSE, golden_cross |-> FALSE]}

CycleTables == UNION {[1..n -> CycleRows] : n \in 1..MaxCycleCandidates}

market_moves ==
    /\ last_call # "MarketRadar"
    /\ sentiment_feed' \in CycleFeeds
    /\ candidates_in' \in CycleTables
    /\ last_call' = "market_moves" /\ last_raised' = FALSE
    /\ UNCHANGED <<radar_universe, sentiment_analyzer, sentiment_context, scored,
                   nonScorerVars>>

InitScanCycles ==
    /\ sentiment_feed \in CycleFeeds
    /\ radar_universe = "sp500"
    /\ sentiment_analyzer = NoAnalyzer
    /\ sentiment_context = <<>>
    /\ candidates_in \in CycleTables
    /\ scored = <<>>
    /\ TacticalIdle /\ SignalsIdle /\ DetectorIdle /\ RadarMetricsIdle /\ SvgaIdle /\ CyclesIdle /\ MultiUserIdle /\ WindowsIdle /\ NoCallYet

NextScanCycles == market_radar_init \/ radar_scan \/ market_moves

SpecScanCycles == InitScanCycles /\ [][NextScanCycles]_vars

\* Tickers of every history length up to MaxDataLen bars, one after another.
MaxDataLen == 130

next_ticker ==
    /\ df_len' \in 0..MaxDataLen
    /\ last_call' = "next_ticker" /\ last_raised' = FALSE
    /\ UNCHANGED <<ema_windows, nonWindowVars>>

InitWindows ==
    /\ df_len \in 0..MaxDataLen
    /\ ema_windows = NoWindows
    /\ TacticalIdle /\ ScorerIdle /\ SignalsIdle /\ DetectorIdle /\ RadarMetricsIdle /\ SvgaIdle /\ CyclesIdle /\ MultiUserIdle /\ NoCallYet

NextWindows == adjust_windows \/ next_ticker

SpecWindows == InitWindows /\ [][NextWindows]_vars

\* Latest and previous rows of an indicator frame: close 100 against bands,
\* means and a long EMA on either side of it; every indicator also undefined.
RsiChoicesSvga == {<<NaN, NaN>>, <<50, 50>>, <<25, 20>>, <<25, 80>>, <<75, 20>>, <<75, 80>>}
BandChoices ==
    {<<96, 98, 96, 98>>, <<96, 104, 96, 104>>, <<102, 104, 102, 104>>,
     <<NaN, NaN, NaN, NaN>>, <<96, 98, NaN, NaN>>}
ObvChoices == {<<NaN, NaN>>, <<10, 5>>, <<10, 15>>}
HistChoices ==
    {<<NaN, NaN>>, <<5, -5>>, <<5, 5>>, <<-5, 5>>, <<-5, -5>>, <<5, NaN>>, <<0, 0>>}

SignalBars ==
    {[close |-> 100, prev_close |-> pc, close_mean10 |-> cm, ema_50 |-> e,
      ema_200 |-> 100, adx |-> a, rsi |-> r[1], rsi_mean10 |-> r[2],
      bbl |-> bb[1], bbu |-> bb[2], prev_bbl |-> bb[3], prev_bbu |-> bb[4],
      obv |-> o[1], obv_mean5 |-> o[2], macd_hist |-> m[1], prev_hist |-> m[2]] :
        pc \in {97, 100, 103}, cm \in {99, 101}, e \in {NaN, 99, 101},
        a \in {NaN, 20, 21, 26, 41}, r \in RsiChoicesSvga, bb \in BandChoices,
        o \in ObvChoices, m \in HistChoices}

InitSignals ==
    /\ bars_in \in SignalBars
    /\ signals = NewSignals(NoBars)
    /\ TacticalIdle /\ ScorerIdle /\ DetectorIdle /\ RadarMetricsIdle /\ SvgaIdle /\ CyclesIdle /\ MultiUserIdle /\ WindowsIdle /\ NoCallYet

NextSignals == generate_signals

SpecSignals == InitSignals /\ [][NextSignals]_vars

(***************************************************************************)
(* Specification of the alert detector                                     *)
(***************************************************************************)

Asset(metrics, alerts) ==
    [present |-> TRUE, has_metrics |-> TRUE, has_signals |-> TRUE,
     metrics |-> metrics, alerts |-> alerts]

\* An asset whose analysis failed: {"error": ...}
ErrorOnlyAsset ==
    [present |-> TRUE, has_metrics |-> FALSE, has_signals |-> FALSE,
     metrics |-> EmptyMetrics, alerts |-> <<>>]

\* Indicator snapshots on either side of every threshold of the pattern,
\* volume and RSI checks, each key also missing.
EmaPairs == {<<Absent, Absent>>, <<101, 100>>, <<99, 100>>, <<100, Absent>>}
VolumePairs ==
    {<<Absent, Absent>>, <<400, 100>>, <<30, 100>>, <<100, 100>>, <<400, 0>>,
     <<Absent, 100>>}

IndicatorSnapshots ==
    {[atr_percent |-> Absent, volume |-> v[1], volume_sma_20 |-> v[2],
      ema_50 |-> e[1], ema_200 |-> e[2], rsi |-> r, macd_histogram |-> m,
      adx |-> a, stoch_k |-> k, close |-> 100, close_prev |-> 100] :
        v \in VolumePairs, e \in EmaPairs, r \in {Absent, 20, 50, 80},
        m \in {Absent, -5, 5}, a \in {Absent, 30}, k \in {Absent, 30, 70}}

\* Price snapshots: changes of 0, 5, 6, 10, 11 and 12 percent, a missing or
\* zero previous close, and ATR percent at, just above and above 5.
PriceSnapshots ==
    {[EmptyMetrics EXCEPT !["close"] = c, !["close_prev"] = cp, !["atr_percent"] = atr] :
        c \in {Absent, 88, 95, 100, 105, 106, 110, 111}, cp \in {Absent, 0, 100},
        atr \in {Absent, 50, 51, 60}}

SignalAlerts ==
    {<<>>, <<Alert("DIVERGENCIA_ALCISTA", "HIGH")>>, <<Alert("SIN_SENALES", "LOW")>>}

StockAssets ==
    {Asset(m, <<>>) : m \in IndicatorSnapshots}
        \cup {Asset(m, al) : m \in PriceSnapshots, al \in SignalAlerts}
        \cup {ErrorOnlyAsset, NoAsset}

CryptoCloses == {<<103, 100>>, <<97, 100>>, <<103, Absent>>, <<103, 0>>, <<Absent, Absent>>}

CryptoAssets ==
    {Asset([EmptyMetrics EXCEPT !["close"] = c[1], !["close_prev"] = c[2]], <<>>) :
        c \in CryptoCloses} \cup {ErrorOnlyAsset, NoAsset}

Batches ==
    {[t \in {"AAPL", "BTC-USD", "ETH-USD"} |->
        IF t = "AAPL" THEN a ELSE IF t = "BTC-USD" THEN b ELSE e] :
        a \in StockAssets, b \in CryptoAssets, e \in CryptoAssets}

InitDetector ==
    /\ datos_completos \in Batches
    /\ detector = DetectorVacio
    /\ alertas_out = DetectorVacio
    /\ earlier_out = DetectorVacio
    /\ TacticalIdle /\ ScorerIdle /\ SignalsIdle /\ RadarMetricsIdle /\ SvgaIdle /\ CyclesIdle /\ MultiUserIdle /\ WindowsIdle /\ NoCallYet

NextDetector == detectar_todas_alertas

SpecDetector == InitDetector /\ [][NextDetector]_vars

\* Calls repeated on one detector while the analysis it is given changes.
RunStocks ==
    {NoAsset,
     Asset([EmptyMetrics EXCEPT !["close"] = 111, !["close_prev"] = 100,
                                !["atr_percent"] = 60], <<>>),
     Asset([EmptyMetrics EXCEPT !["close"] = 95, !["close_prev"] = 100],
           <<Alert("DIVERGENCIA_ALCISTA", "HIGH")>>)}

RunCryptos ==
    {Asset([EmptyMetrics EXCEPT !["close"] = c[1], !["close_prev"] = c[2]], <<>>) :
        c \in {<<103, 100>>, <<97, 100>>, <<103, 0>>}} \cup {NoAsset}

RunBatches ==
    {b \in Batches : /\ b["AAPL"] \in RunStocks
                     /\ b["BTC-USD"] \in RunCryptos /\ b["ETH-USD"] \in RunCryptos}

\* The next cycle hands the detector another analysis.
datos_change ==
    /\ datos_completos' \in RunBatches \ {datos_completos}
    /\ last_call' = "datos_change" /\ last_raised' = FALSE
    /\ UNCHANGED <<detector, alertas_out, earlier_out, nonDetectorVars>>

InitDetectorRuns ==
    /\ datos_completos \in RunBatches
    /\ detector = DetectorVacio
    /\ alertas_out = DetectorVacio
    /\ earlier_out = DetectorVacio
    /\ TacticalIdle /\ ScorerIdle /\ SignalsIdle /\ RadarMetricsIdle /\ SvgaIdle /\ CyclesIdle /\ MultiUserIdle /\ WindowsIdle /\ NoCallYet

NextDetectorRuns == detectar_todas_alertas \/ datos_change

SpecDetectorRuns == InitDetectorRuns /\ [][NextDetectorRuns]_vars

(***************************************************************************)
(* Specification of the detector run on the assets SVGASystem analysed     *)
(***************************************************************************)

FrameRow(close, volume, rsi, atr) ==
    [close |-> close, volume |-> volume, EMA_50 |-> 101, EMA_200 |-> 100,
     RSI_14 |-> rsi, MACDh_12_26_9 |-> 5, ADX_14 |-> 30, ATR_14 |-> atr]

\* Two rows: a previous bar at 100 with volume 100, and a latest bar 12
\* percent down, flat or 12 percent up, on a third or on twenty times the
\* volume, with RSI and ATR warming up or extreme (ATR 10 percent of price).
StockFrames ==
    {[df |-> <<FrameRow(100, 100, 50, 3), FrameRow(c, v, rsi, atr)>>, alerts |-> al] :
        c \in {88, 100, 112}, v \in {30, 2000}, rsi \in {NaN, 80}, atr \in {NaN, 10},
        al \in {<<>>, <<Alert("DIVERGENCIA_ALCISTA", "HIGH")>>}}
        \cup {NoFrame}

\* Crypto frames moving 3 percent either way.
CryptoFrames ==
    {[df |-> <<FrameRow(100, 100, 50, 3), FrameRow(c, 100, 50, 3)>>, alerts |-> <<>>] :
        c \in {97, 103}} \cup {NoFrame}

InitSvgaDetector ==
    /\ asset_frames \in
          {[t \in {"AAPL", "BTC-USD", "ETH-USD"} |->
              IF t = "AAPL" THEN a ELSE IF t = "BTC-USD" THEN b ELSE e] :
              a \in StockFrames, b \in CryptoFrames, e \in CryptoFrames}
    /\ DetectorIdle
    /\ TacticalIdle /\ ScorerIdle /\ SignalsIdle /\ RadarMetricsIdle /\ CyclesIdle /\ MultiUserIdle /\ WindowsIdle /\ NoCallYet

NextSvgaDetector == analyze_assets \/ detectar_todas_alertas

SpecSvgaDetector == InitSvgaDetector /\ [][NextSvgaDetector]_vars

(***************************************************************************)
(* Specification of the analysis cycles                                    *)
(***************************************************************************)

\* A machine without any analysis file, the process started in any of the
\* directories, under either meaning of the export path.
InitCycles ==
    /\ ciclo = 1 /\ cwd \in Dirs /\ drive_paths \in BOOLEAN
    /\ disk = [d \in Dirs |-> NoFiles] /\ resumen = NoResumen
    /\ TacticalIdle /\ ScorerIdle /\ SignalsIdle /\ DetectorIdle /\ RadarMetricsIdle
    /\ SvgaIdle /\ MultiUserIdle /\ WindowsIdle /\ NoCallYet

NextCycles == run_integrated_analysis \/ start_process

SpecCycles == InitCycles /\ [][NextCycles]_vars

(***************************************************************************)
(* Specification of the multi-user cycles                                  *)
(***************************************************************************)

\* A user whose analysis uploads everything, uploads part, raises inside
\* the try block, and a record without user_id.
UserKinds ==
    {[has_user_id |-> TRUE, outcome |-> o] : o \in {"ok", "partial", "raises"}}
        \cup {[has_user_id |-> FALSE, outcome |-> "ok"]}

InitMultiUser ==
    /\ users \in UNION {[1..n -> UserKinds] : n \in 0..MaxUsers}
    /\ parallel \in BOOLEAN /\ max_workers \in 1..MaxWorkers
    /\ cycle_pc = "idle" /\ cycles_run = 0 /\ radar_cache = EmptyRadarCache
    /\ market_candidates = <<>> /\ scans = 0 /\ worker = NoWorkers
    /\ svga_instances = 0 /\ analysis_results = <<>> /\ cycle_result = "none"
    /\ TacticalIdle /\ ScorerIdle /\ SignalsIdle /\ DetectorIdle /\ RadarMetricsIdle
    /\ SvgaIdle /\ CyclesIdle /\ WindowsIdle /\ NoCallYet

NextMultiUser ==
    \/ get_all_active_users \/ run_radar_scan
    \/ worker_start \/ worker_return \/ collect_result
    \/ run_sequential_step \/ cycle_summary

SpecMultiUser == InitMultiUser /\ [][NextMultiUser]_vars

(***************************************************************************)
(* Specification of the market radar's metrics                             *)
(***************************************************************************)

MaxRadarBars == 51

\* Bars that may stand out from a flat history: the latest, the one before,
\* the oldest of the window and the one just outside it.
MarkedBars(n) == {n, n - 1, n - BreakoutWindow, n - BreakoutWindow - 1}

\* Flat series of n bars with highs 100 and lows 90, spiking to 110 / dipping
\* to 80 on any subset of the marked bars; latest close below, inside and above.
RadarSeriesOf(n) ==
    {[high |-> [i \in 1..n |-> IF i \in up THEN 110 ELSE 100],
      low |-> [i \in 1..n |-> IF i \in down THEN 80 ELSE 90],
      close |-> c] :
        up \in SUBSET MarkedBars(n), down \in SUBSET MarkedBars(n), c \in {85, 95, 105}}

RadarSeries ==
    UNION {RadarSeriesOf(n) : n \in {MinRadarBars - 1, MinRadarBars, MaxRadarBars}}

InitRadarMetrics ==
    /\ radar_bars \in RadarSeries
    /\ radar_metrics = <<>>
    /\ TacticalIdle /\ ScorerIdle /\ SignalsIdle /\ DetectorIdle /\ SvgaIdle /\ CyclesIdle /\ MultiUserIdle /\ WindowsIdle /\ NoCallYet

NextRadarMetrics == calculate_radar_metrics

SpecRadarMetrics == InitRadarMetrics /\ [][NextRadarMetrics]_vars

(***************************************************************************)
(* Claims about the tactical radar system                                  *)
(***************************************************************************)

\* A ticker whose series is empty or too short, or whose processing raises.
FaultyFeed(f) == ~f.present \/ ~f.priced \/ f.bars = 0 \/ f.bars < MinTickerBars

FaultyTickers(u) == {i \in DOMAIN u : FaultyFeed(u[i])}

RECURSIVE ValidTickerList(_, _)
ValidTickerList(u, i) ==
    IF i > Len(u)
    THEN <<>>
    ELSE (IF FaultyFeed(u[i]) THEN <<>> ELSE <<i>>) \o ValidTickerList(u, i + 1)

MetricsCalledOnUniverse ==
    /\ last_call = "calculate_tactical_metrics"
    /\ data = Loaded(universe) /\ tickers = TickerList(universe)

RegimeTags(regime) ==
    IF regime = "ALCISTA" THEN {RadarNames[1], RadarNames[2]}
    ELSE IF regime = "BAJISTA" THEN {RadarNames[3], RadarNames[4]}
    ELSE IF regime = "LATERAL" THEN {RadarNames[5]}
    ELSE {}

RegimeMethods(regime) ==
    IF regime = "ALCISTA" THEN {RadarMethods[1], RadarMethods[2]}
    ELSE IF regime = "BAJISTA" THEN {RadarMethods[3], RadarMethods[4]}
    ELSE IF regime = "LATERAL" THEN {RadarMethods[5]}
    ELSE {}

AllRadarMethods == {RadarMethods[k] : k \in 1..5}

\* C2: every candidate row run_tactical_scan returns carries a radar tag of
\* the regime's own radar set, and no radar of another regime runs.
Thm_C2_RadarExclusivity ==
    last_call = "run_tactical_scan"
        => /\ (steps \cap AllRadarMethods) \subseteq RegimeMethods(regime_info.regime)
           /\ scan_out.candidates # <<>>
                 => \A i \in DOMAIN scan_out.table :
                        scan_out.table[i].radar \in RegimeTags(regime_info.regime)

\* A bullish scan returns a candidate although the universe also holds a row
\* that a radar of another regime would match.
Wit_C2_OtherRegimeRowIgnored ==
    /\ last_call = "run_tactical_scan"
    /\ regime_info.regime = "ALCISTA"
    /\ scan_out.candidates # <<>>
    /\ \E i \in DOMAIN universe :
          Radar3Filter(universe[i].row) \/ Radar5Filter(universe[i].row)

\* C3: when the regime is UNKNOWN, run_tactical_scan returns an empty list,
\* an empty table and the label 'NONE', and neither downloads the universe,
\* computes metrics nor runs a radar.
Thm_C3_UnknownShortCircuit ==
    (last_call = "run_tactical_scan" /\ regime_info.regime = "UNKNOWN")
        => /\ scan_out = EmptyScan
           /\ steps = {"regime"}
           /\ data = NoData /\ tickers = <<>> /\ df_metrics = <<>>

Wit_C3_UnknownWithLateralCandidates ==
    /\ last_call = "run_tactical_scan"
    /\ regime_info.regime = "UNKNOWN"
    /\ \E i \in DOMAIN universe : Radar5Filter(universe[i].row)

\* C4: the confidence of the record determine_market_regime returns lies in
\* [0, 100] on every path (tenths: [0, 1000]).
Thm_C4_ConfidenceBound ==
    last_call = "determine_market_regime"
        => regime_info.confidence >= 0 /\ regime_info.confidence <= 1000

Wit_C4_OverrideConfidence ==
    /\ last_call = "determine_market_regime"
    /\ ~regime_info.error
    /\ bench.adx < 20
    /\ regime_info.confidence = 425

\* The latest bar of the benchmark is a bullish one: close > EMA_50 > long
\* EMA, ADX > 25 and MACD histogram > 0.
BullishLatestBar(b) ==
    /\ b.price > b.ema_50 /\ b.ema_50 > b.EMA_100
    /\ b.adx > 25 /\ b.macd_hist > 0

BullishAnswer(info) ==
    /\ info.regime = "ALCISTA" /\ info.signal = "COMPRAR"
    /\ info.confidence = 1000 /\ info.confidence >= 850

Cex_C9_SixtyBarsSuffice ==
    last_call = "determine_market_regime"
        => /\ bench.bars >= MinBenchBars
                 => regime_info.regime \in {"ALCISTA", "BAJISTA", "LATERAL"}
           /\ bench.bars < MinBenchBars
                 => regime_info.regime = "UNKNOWN" /\ regime_info.confidence = 0


\* run_tactical_scan got as far as running the radars of the regime.
RadarsRan ==
    last_call = "run_tactical_scan" /\ "metrics" \in steps /\ df_metrics # <<>>

\* The (row, radar) pairs of the metrics table that a radar of the regime matches.
MatchedRows ==
    {p \in (DOMAIN df_metrics) \X {k \in 1..5 : RadarNames[k] \in RegimeTags(regime_info.regime)} :
        RadarFilter(p[2], df_metrics[p[1]])}

TaggedMatch(p) == Tagged(p[2], df_metrics[p[1]])

\* The table t is the matched rows in non-increasing score order, cut to n.
TopMatches(t, n) ==
    /\ Len(t) = Min(n, Cardinality(MatchedRows))
    /\ \A i \in DOMAIN t : \E p \in MatchedRows : t[i] = TaggedMatch(p)
    /\ \A i, j \in DOMAIN t : i < j => t[i].score >= t[j].score /\ t[i] # t[j]
    /\ \A p \in MatchedRows :
          (\A i \in DOMAIN t : t[i] # TaggedMatch(p))
              => \A i \in DOMAIN t : t[i].score >= TaggedMatch(p).score

\* C11: the candidate table run_tactical_scan returns is the union of the
\* rows matched by the regime's radars, in non-increasing score order, cut
\* to max_candidates: its length is min(max_candidates, matched rows) and
\* no dropped row has a higher score than a kept one.
Cex_C11_TableIsTopMatches ==
    RadarsRan => TopMatches(scan_out.table, max_candidates)

\* C17: in the row calculate_tactical_metrics builds for a ticker, an indicator
\* that could not be computed (MACD histogram, ADX, volume average) is marked
\* absent, never replaced by a numeric default such as 0 or 20.
Cex_C17_UncomputedIndicatorsAbsent ==
    MetricsCalledOnUniverse =>
        \A i \in DOMAIN df_metrics :
            LET r == df_metrics[i]
                f == universe[r.ticker]
            IN  /\ ~f.macd_df => r.macd_hist = Absent /\ r.macd_hist_prev = Absent
                /\ ~f.adx_df => r.adx = Absent
                /\ ~f.has_volume => r.volume_sma_20 = Absent

\* C19: no metrics row passes both radars of one regime (radars 1 and 2 of
\* the bullish regime, radars 3 and 4 of the bearish one), so for a universe
\* of distinct tickers the candidate list of run_tactical_scan holds each
\* ticker at most once.
Thm_C19_OneSlotPerTicker ==
    RadarsRan =>
        /\ \A i \in DOMAIN df_metrics :
              /\ ~(Radar1Filter(df_metrics[i]) /\ Radar2Filter(df_metrics[i]))
              /\ ~(Radar3Filter(df_metrics[i]) /\ Radar4Filter(df_metrics[i]))
        /\ \A i, j \in DOMAIN scan_out.candidates :
              scan_out.candidates[i] = scan_out.candidates[j] => i = j
        /\ \A i, j \in DOMAIN scan_out.table :
              scan_out.table[i].ticker = scan_out.table[j].ticker => i = j

\* A bullish scan in which a ticker has every condition of both radars but
\* the RSI one of radar 2, and another ticker passes radar 2: both radars
\* returned rows and the two slots went to two tickers.
Wit_C19_BothRadarsOfTheRegimeMatch ==
    /\ RadarsRan /\ regime_info.regime = "ALCISTA"
    /\ \E i, j \in DOMAIN df_metrics :
          /\ Radar1Filter(df_metrics[i]) /\ Radar2FilterAnyRsi(df_metrics[i])
          /\ Radar2Filter(df_metrics[j])
    /\ Len(scan_out.candidates) = 2

\* determine_market_regime returned on the ADX < 20 branch.
AdxOverrideTaken ==
    last_call = "determine_market_regime" /\ ~regime_info.error /\ bench.adx < 20

\* The confidence accumulated by the trend and momentum analyses (tenths).
ConfidenceBeforeOverride == MomentumAnalysis(TrendAnalysis(bench), bench).confidence

WindowsAdjusted == last_call = "adjust_windows" /\ ema_windows # NoWindows

\* C29: for a ticker of n bars, n >= 80, the long EMA length is 100 when
\* n >= 120 and min(max(ema50_len, floor(0.6 n), 30), n) otherwise, and in
\* both cases ema50_len <= long length <= n.
Thm_C29_LongEmaLength ==
    WindowsAdjusted =>
        LET n == df_len
            w == ema_windows
        IN  /\ n >= 80
            /\ n >= 120 => w.ema100_len = 100
            /\ n < 120 =>
                   w.ema100_len = Min(Max(Max(w.ema50_len, (3 * n) \div 5), 30), n)
            /\ w.ema50_len <= w.ema100_len
            /\ w.ema100_len <= n

\* 119 bars: below the 120-bar threshold, 0.6 n = 71.4 gives a long window
\* of 71 bars over the 50-bar one.
Wit_C29_LongWindowOf71Bars ==
    /\ WindowsAdjusted /\ df_len = 119
    /\ ema_windows.ema50_len = 50 /\ ema_windows.ema100_len = 71

Thm_C27_FailedCallKeepsSavedRegime ==
    /\ [](market_regime # "UNKNOWN" /\ (market_regime = None <=> regime_signal = None))
    /\ [][last_call' = "determine_market_regime" =>
             IF regime_info'.regime = "UNKNOWN"
             THEN UNCHANGED <<market_regime, regime_signal>>
             ELSE /\ market_regime' = regime_info'.regime
                  /\ regime_signal' = regime_info'.signal]_vars

\* A failing call has returned on an object that still holds the regime an
\* earlier call saved.
Wit_C27_FailureAfterSuccess ==
    /\ last_call = "determine_market_regime"
    /\ regime_info.regime = "UNKNOWN"
    /\ market_regime # None /\ regime_signal # None

(***************************************************************************)
(* Claims about the candidate scorer                                       *)
(***************************************************************************)

ScoreCalled == last_call = "calculate_candidate_score"

\* C5: for every candidate row and every sentiment value (ROC far above 25,
\* relative volume far above 6 and every combination of the boolean flags
\* included), calculate_candidate_score yields score_base in [0, 90] and a
\* final score in [0, 100] (900 and 1000 in tenths).
Thm_C5_ScoreBounds ==
    ScoreCalled =>
        \A i \in DOMAIN scored :
            /\ scored[i].score_base >= 0 /\ scored[i].score_base <= 900
            /\ scored[i].score >= 0 /\ scored[i].score <= 1000

\* Both ends: ROC +1000%, relative volume 100 and every flag under extreme
\* fear have been scored, and so has a collapsing row under extreme greed.
Wit_C5_ExtremeInputsScored ==
    /\ ScoreCalled /\ Len(scored) = 1
    /\ sentiment_analyzer.available /\ sentiment_context = <<0>>
    /\ scored[1].roc_10d = 1000 /\ scored[1].rvol = 1000
    /\ scored[1].above_sma50 /\ scored[1].above_sma200
    /\ scored[1].breakout_up /\ scored[1].golden_cross
    /\ scored[1].score_base = 825 /\ scored[1].score = 925

\* The tier the spec gives a score: LOW [0,50), MEDIUM [50,70), HIGH [70,100].
SpecTier(score) ==
    IF score >= 0 /\ score < 500 THEN "BAJA"
    ELSE IF score >= 500 /\ score < 700 THEN "MEDIA"
    ELSE IF score >= 700 /\ score <= 1000 THEN "ALTA"
    ELSE "NaN"

\* C10: calculate_candidate_score gives every scored candidate the tier of
\* the left-closed intervals: BAJA for a score in [0,50), MEDIA for [50,70),
\* ALTA for [70,100]; score 0 is BAJA, 50 is MEDIA, 70 is ALTA and no score
\* in [0,100] is left without a tier.
Cex_C10_TiersLeftClosed ==
    ScoreCalled =>
        \A i \in DOMAIN scored :
            /\ scored[i].confianza = SpecTier(scored[i].score)
            /\ scored[i].confianza # "NaN"

\* What the Fear & Greed source answers a request made now.
FetchedNow == IF sentiment_feed.ok THEN sentiment_feed.value ELSE FallbackSentiment

SignalsCalled == last_call = "generate_signals"

AlertTypes(sg) == {sg.alerts[i].type : i \in DOMAIN sg.alerts}

BearishDivergence(b) ==
    b.rsi # NaN /\ b.rsi > 70 /\ b.close > b.close_mean10 /\ b.rsi < b.rsi_mean10

BullishDivergence(b) ==
    b.rsi # NaN /\ b.rsi < 30 /\ b.close < b.close_mean10 /\ b.rsi > b.rsi_mean10

BandsDefined(b) ==
    b.bbl # NaN /\ b.bbu # NaN /\ b.obv # NaN /\ b.prev_bbl # NaN /\ b.prev_bbu # NaN

ConfirmedBreakoutUp(b) ==
    /\ BandsDefined(b)
    /\ b.close > b.bbu /\ b.prev_close <= b.prev_bbu /\ b.obv > b.obv_mean5

ConfirmedBreakoutDown(b) ==
    /\ BandsDefined(b)
    /\ b.close < b.bbl /\ b.prev_close >= b.prev_bbl /\ b.obv < b.obv_mean5

MacdCross(b) ==
    /\ b.macd_hist # NaN /\ b.prev_hist # NaN
    /\ \/ b.macd_hist > 0 /\ b.prev_hist <= 0
       \/ b.macd_hist < 0 /\ b.prev_hist >= 0

\* No rule of the cascade has anything to say about the rows b.
NoRuleFires(b) ==
    /\ b.rsi = NaN \/ (b.rsi >= 30 /\ b.rsi <= 70)
    /\ ~ConfirmedBreakoutUp(b) /\ ~ConfirmedBreakoutDown(b)
    /\ ~MacdCross(b)
    /\ b.adx = NaN \/ b.adx > 20

\* C6: every Signal Record generate_signals returns has at least one alert,
\* whichever indicators are defined; when no rule fired, the only entry is
\* the LOW alert SIN_SENALES.
Thm_C6_AlertsNeverEmpty ==
    SignalsCalled =>
        /\ Len(signals.alerts) >= 1
        /\ NoRuleFires(bars_in) => signals.alerts = <<Alert("SIN_SENALES", "LOW")>>

\* A frame with every optional indicator undefined went through the cascade.
Wit_C6_NothingDefined ==
    /\ SignalsCalled
    /\ bars_in.rsi = NaN /\ bars_in.adx = NaN /\ bars_in.bbu = NaN
    /\ bars_in.obv = NaN /\ bars_in.macd_hist = NaN /\ bars_in.ema_50 = NaN
    /\ signals.alerts = <<Alert("SIN_SENALES", "LOW")>>

\* C7: when the same bar satisfies an RSI divergence and a confirmed
\* Bollinger/OBV breakout, the final signal is the divergence's (-1 bearish,
\* +1 bullish) even when the breakout points the other way; the breakout
\* only adds its alert.
Thm_C7_DivergenceNotOverwritten ==
    SignalsCalled =>
        /\ (BearishDivergence(bars_in) /\ ConfirmedBreakoutUp(bars_in)) =>
               /\ signals.signal = -1 /\ signals.priority = "HIGH"
               /\ signals.recommendation = "VENDER"
               /\ {"DIVERGENCIA_BAJISTA", "RUPTURA_ALCISTA_CONFIRMADA"}
                      \subseteq AlertTypes(signals)
        /\ (BearishDivergence(bars_in) /\ ConfirmedBreakoutDown(bars_in)) =>
               /\ signals.signal = -1
               /\ "RUPTURA_BAJISTA_CONFIRMADA" \in AlertTypes(signals)
        /\ (BullishDivergence(bars_in) /\ ConfirmedBreakoutDown(bars_in)) =>
               /\ signals.signal = 1 /\ signals.priority = "HIGH"
               /\ signals.recommendation = "COMPRAR"
               /\ {"DIVERGENCIA_ALCISTA", "RUPTURA_BAJISTA_CONFIRMADA"}
                      \subseteq AlertTypes(signals)
        /\ (BullishDivergence(bars_in) /\ ConfirmedBreakoutUp(bars_in)) =>
               /\ signals.signal = 1
               /\ "RUPTURA_ALCISTA_CONFIRMADA" \in AlertTypes(signals)

\* A bearish divergence and a confirmed upward breakout on the same bar.
Wit_C7_DivergenceAgainstBreakout ==
    /\ SignalsCalled
    /\ BearishDivergence(bars_in) /\ ConfirmedBreakoutUp(bars_in)
    /\ "RUPTURA_ALCISTA_CONFIRMADA" \in AlertTypes(signals)
    /\ signals.signal = -1

AlertPriorities(sg) == {sg.alerts[i].priority : i \in DOMAIN sg.alerts}

\* C22: when generate_signals classifies the market as LATERAL the record
\* holds a LOW-priority MERCADO_LATERAL alert, and a signal other than 0
\* (recommendation COMPRAR or VENDER) always comes with priority HIGH: a MACD
\* zero-cross alone never yields a buy or a sell in a lateral market.
Thm_C22_LateralKeepsOnlyHighSignals ==
    (SignalsCalled /\ signals.market_regime = "LATERAL") =>
        /\ \E i \in DOMAIN signals.alerts :
              signals.alerts[i] = Alert("MERCADO_LATERAL", "LOW")
        /\ signals.signal # 0 => signals.priority = "HIGH"
        /\ signals.recommendation \in {"COMPRAR", "VENDER"} => signals.priority = "HIGH"
        /\ (MacdCross(bars_in) /\ "HIGH" \notin AlertPriorities(signals)) =>
               /\ signals.signal = 0 /\ signals.recommendation = "MANTENER"
               /\ signals.priority = "LOW"

\* The histogram crossed zero upwards in a lateral market with no divergence
\* and no breakout: the cross is reported and the signal stays 0.
Wit_C22_MacdCrossInLateralMarket ==
    /\ SignalsCalled /\ signals.market_regime = "LATERAL"
    /\ bars_in.macd_hist > 0 /\ MacdCross(bars_in)
    /\ "MACD_CRUCE_ALCISTA" \in AlertTypes(signals)
    /\ "HIGH" \notin AlertPriorities(signals)
    /\ signals.signal = 0

\* C23: the priority of a Signal Record is HIGH exactly when its alert list
\* holds an alert of priority HIGH, and LOW otherwise, never MEDIUM: a buy or
\* sell set only by a MACD zero-cross carries priority LOW.
Thm_C23_PriorityFollowsHighAlerts ==
    SignalsCalled =>
        /\ signals.priority = "HIGH" <=> "HIGH" \in AlertPriorities(signals)
        /\ signals.priority \in {"HIGH", "LOW"}
        /\ (signals.signal # 0 /\ "HIGH" \notin AlertPriorities(signals)) =>
               /\ signals.priority = "LOW" /\ MacdCross(bars_in)
        /\ \A i \in DOMAIN signals.alerts :
              signals.alerts[i].priority = "HIGH" =>
                  signals.alerts[i].type \in
                      {"DIVERGENCIA_BAJISTA", "DIVERGENCIA_ALCISTA",
                       "RUPTURA_ALCISTA_CONFIRMADA", "RUPTURA_BAJISTA_CONFIRMADA"}

\* A sell set by the MACD zero-cross alone, in a trending market.
Wit_C23_MacdOnlySell ==
    /\ SignalsCalled
    /\ signals.signal = -1 /\ signals.recommendation = "VENDER"
    /\ "MACD_CRUCE_BAJISTA" \in AlertTypes(signals)
    /\ "HIGH" \notin AlertPriorities(signals)
    /\ "MEDIUM" \in AlertPriorities(signals)
    /\ signals.priority = "LOW"

(***************************************************************************)
(* Claims about the alert detector                                         *)
(***************************************************************************)

DetectorCalled == last_call = "detectar_todas_alertas"

BatchTickers == {"AAPL", "BTC-USD", "ETH-USD"}

\* The assets of the batch that the per-asset checks look at.
Analysed(t) ==
    /\ datos_completos[t].present
    /\ datos_completos[t].has_metrics /\ datos_completos[t].has_signals

Lacks(t, key) == LatestMetrics(datos_completos[t])[key] = Absent

Records(list, tipo, ticker) ==
    {i \in DOMAIN list : list[i].tipo = tipo /\ list[i].ticker = ticker}

\* C12: detectar_todas_alertas completes for the whole batch without
\* raising, whatever fields each asset carries (only an error entry, no
\* close_prev, close_prev = 0), and an asset lacking a field a check needs
\* gets no record from that check: an absent macd_histogram adds nothing to
\* either pattern total, an absent close_prev gives no price-change and no
\* broken-correlation anomaly.
Cex_C12_MissingFieldsSkipChecks ==
    DetectorCalled =>
        /\ \A t \in BatchTickers :
              (Analysed(t) /\ Lacks(t, "macd_histogram")) =>
                  \A sc \in {<<0, 0>>, <<20, 15>>} :
                      PatronMacd(sc, datos_completos[t].metrics) = sc
        /\ \A t \in BatchTickers :
              (Analysed(t) /\ Lacks(t, "close_prev")) =>
                  Records(detector.anomalias, "CAMBIO_PRECIO_ABRUPTO", t) = {}
        /\ (\E t \in {"BTC-USD", "ETH-USD"} : Lacks(t, "close_prev")) =>
              Records(detector.anomalias, "CORRELACION_ROTA", "BTC-USD / ETH-USD") = {}
        /\ ~last_raised

\* volume / volume_sma_20 > 3.0 and RSI > 75
HighVolumeOverbought(t) ==
    LET m == datos_completos[t].metrics
    IN  /\ Analysed(t)
        /\ ~Lacks(t, "volume") /\ ~Lacks(t, "volume_sma_20") /\ ~Lacks(t, "rsi")
        /\ m["volume_sma_20"] > 0 /\ m["volume"] * 10 > 30 * m["volume_sma_20"]
        /\ m["rsi"] > 75

\* C13: for an asset with relative volume above 3.0 (e.g. 4.0) and RSI above
\* 75 (e.g. 80), one detector run emits for that ticker both an
\* unusual-volume alert of severity HIGH (ALTA) and an RSI-overbought alert.
Cex_C13_HighVolumeAlertIsHigh ==
    (DetectorCalled /\ ~last_raised) =>
        \A t \in BatchTickers :
            HighVolumeOverbought(t) =>
                /\ \E i \in Records(alertas_out.alertas, "VOLUMEN_ALTO", t) :
                      alertas_out.alertas[i].severidad = "ALTA"
                /\ Records(alertas_out.alertas, "RSI_SOBRECOMPRA", t) # {}

\* |close / close_prev - 1| in percent, times close_prev
ChangeTimesPrev(t) ==
    Abs(datos_completos[t].metrics["close"] - datos_completos[t].metrics["close_prev"]) * 100

\* C14: for an asset with close_prev > 0 the detector emits a
\* CAMBIO_PRECIO_ABRUPTO anomaly exactly when |close/close_prev - 1| > 5%,
\* with severity ALTA when the magnitude exceeds 10% and MEDIA otherwise; a
\* change of at most 5% emits none.
Thm_C14_AbruptPriceChange ==
    (DetectorCalled /\ ~last_raised) =>
        \A t \in BatchTickers :
            (/\ Analysed(t) /\ ~Lacks(t, "close") /\ ~Lacks(t, "close_prev")
             /\ datos_completos[t].metrics["close_prev"] > 0) =>
                LET prev == datos_completos[t].metrics["close_prev"]
                    recs == Records(alertas_out.anomalias, "CAMBIO_PRECIO_ABRUPTO", t)
                IN  /\ (recs # {}) <=> (ChangeTimesPrev(t) > 5 * prev)
                    /\ Cardinality(recs) <= 1
                    /\ \A i \in recs :
                          alertas_out.anomalias[i].severidad =
                              IF ChangeTimesPrev(t) > 10 * prev THEN "ALTA" ELSE "MEDIA"

\* A fall of 12 percent on one bar came out as an ALTA anomaly.
Wit_C14_TwelvePercentFall ==
    /\ DetectorCalled /\ ~last_raised
    /\ datos_completos["AAPL"].metrics["close"] = 88
    /\ datos_completos["AAPL"].metrics["close_prev"] = 100
    /\ \E i \in DOMAIN alertas_out.anomalias :
          alertas_out.anomalias[i] = Registro("CAMBIO_PRECIO_ABRUPTO", "AAPL", "ALTA")

\* The detector has run on the entries SVGASystem built from its frames.
DetectorRanOnAnalysedAssets ==
    /\ DetectorCalled
    /\ datos_completos = AnalysedAssets(asset_frames)

DataKeyedTypes ==
    {"VOLATILIDAD_AUMENTADA", "VOLUMEN_ALTO", "VOLUMEN_BAJO",
     "CAMBIO_PRECIO_ABRUPTO", "CORRELACION_ROTA"}

EmittedTypes(d) ==
    {d.anomalias[i].tipo : i \in DOMAIN d.anomalias}
        \cup {d.oportunidades[i].tipo : i \in DOMAIN d.oportunidades}
        \cup {d.alertas[i].tipo : i \in DOMAIN d.alertas}

DetectorReturned == DetectorCalled /\ ~last_raised

\* The lists a call on an object with empty lists returns for the analysis.
FromEmptyLists ==
    DetectarCorrelacionesRotas(
        DetectarActivos(DetectorVacio, BatchOrder, datos_completos), datos_completos)

\* C28: every call of detectar_todas_alertas starts from empty record lists:
\* what it returns is what a new detector returns for the same analysis, so
\* two calls on one detector with the same analysis return equal results and
\* nothing accumulates; and the lists an earlier call returned read the same
\* after a later call, whether that call returns or raises.
Thm_C28_EveryCallStartsFromEmptyLists ==
    /\ [](DetectorReturned => alertas_out = FromEmptyLists)
    /\ [][last_call' = "detectar_todas_alertas" =>
             /\ (DetectorReturned /\ ~last_raised' /\ datos_completos' = datos_completos)
                    => alertas_out' = alertas_out
             /\ ~last_raised' => earlier_out' = alertas_out
             /\ last_raised' => (alertas_out' = alertas_out /\ earlier_out' = earlier_out)]_vars

\* Two calls on one detector have returned: the earlier one left a price
\* anomaly in the caller's hands, the later one, given another analysis,
\* returned other records.
Wit_C28_SecondCallReturnedOtherRecords ==
    /\ DetectorReturned
    /\ earlier_out.anomalias # <<>>
    /\ alertas_out # DetectorVacio
    /\ alertas_out # earlier_out

\* The assets of the analysis whose checks ran with an ATR percent above 5.
VolatileAssets ==
    {t \in BatchTickers :
        /\ datos_completos[t].present /\ datos_completos[t].has_metrics
        /\ datos_completos[t].has_signals
        /\ Get(datos_completos[t].metrics, "atr_percent", 0) > 50}

SummaryComputed == last_call = "run_integrated_analysis" /\ ~last_raised

\* C20: the executive summary of a cycle is computed only from the analysis
\* produced in that cycle, never from analysis output written by an earlier
\* cycle, in any sequence of cycles, including those where the export and
\* the read-back locations differ or the export fails.
Cex_C20_SummaryFromOwnCycle ==
    SummaryComputed =>
        /\ resumen.fed.portfolio \in {Missing, resumen.cycle}
        /\ resumen.fed.market \in {Missing, resumen.cycle}

(***************************************************************************)
(* Claims about the multi-user cycles                                      *)
(***************************************************************************)

\* Some user's analysis has started in the current cycle.
AnalysisStarted == \E i \in DOMAIN worker : worker[i].st # "pending"

\* The scan of the current cycle has returned: both radars are in the cache.
ScanCompleted ==
    /\ scans = 1
    /\ radar_cache.sp500.cycle = cycles_run /\ radar_cache.crypto.cycle = cycles_run
    /\ market_candidates = radar_cache.sp500.candidates \o radar_cache.crypto.candidates

SharedStateWrittenBeforeFanOut ==
    /\ scans <= 1
    /\ AnalysisStarted => ScanCompleted /\ cycle_pc \in {"analysis", "done"}
    /\ \A i, j \in DOMAIN worker :
          (worker[i].svga # 0 /\ worker[i].svga = worker[j].svga) => i = j

\* C24: in a multi-user cycle the shared state is written only before the
\* fan-out: the radar scan runs once and has completed before any user's
\* analysis starts, no step of the analysis phase writes radar_cache or the
\* market-candidate list, and every analysis has an SVGASystem of its own.
Thm_C24_SharedStateWrittenBeforeFanOut ==
    /\ []SharedStateWrittenBeforeFanOut
    /\ [][cycle_pc = "analysis" => UNCHANGED <<radar_cache, market_candidates>>]_vars

\* Two analyses run at the same time on the pool, each on its own
\* SVGASystem, over the candidates of the scan of a second cycle.
Wit_C24_TwoAnalysesInFlight ==
    /\ Cardinality(Running) = 2
    /\ \A i \in Running : worker[i].svga # 0
    /\ cycles_run = 2 /\ market_candidates # <<>>

\* run_sequential or run_parallel is over in a cycle whose scan completed.
AnalysisPhaseOver == cycle_pc = "done" /\ ScanCompleted

\* C25: run_sequential and run_parallel each return exactly one result per
\* input user whatever the outcome of the per-user analysis, a user record
\* without user_id and an analysis that raises included; a failing user
\* never keeps the remaining users from being analysed, and both modes give
\* the same (user, success) outcomes.
Cex_C25_OneResultPerUser ==
    AnalysisPhaseOver =>
        /\ cycle_result = "ok"
        /\ Len(analysis_results) = Len(users)
        /\ \A i \in DOMAIN users :
              \E k \in DOMAIN analysis_results :
                  analysis_results[k] =
                      ResultOf(i, users[i].has_user_id /\ users[i].outcome = "ok")

(***************************************************************************)
(* Claims about the market radar's metrics                                 *)
(***************************************************************************)

RadarMetricsCalled == last_call = "calculate_radar_metrics"

\* The bars t-20 .. t-1 of a series of n bars whose latest bar is t = n.
PreviousTwenty(n) == (n - 20)..(n - 1)

\* C15: in calculate_radar_metrics the 20-bar high and low against which
\* the latest close is tested for breakout_up / breakout_down are the
\* extremes of bars t-20..t-1 only; the latest bar's own high and low never
\* enter the reference, for every series of at least 50 bars.
Thm_C15_BreakoutExcludesLatestBar ==
    (RadarMetricsCalled /\ Len(radar_bars.high) >= 50) =>
        LET n == Len(radar_bars.high) IN
        /\ Len(radar_metrics) = 1
        /\ radar_metrics[1].breakout_up <=>
              \A i \in PreviousTwenty(n) : radar_bars.close > radar_bars.high[i]
        /\ radar_metrics[1].breakout_down <=>
              \A i \in PreviousTwenty(n) : radar_bars.close < radar_bars.low[i]

\* The close is above every high of the twenty bars before but not above
\* the latest bar's own high, and the breakout is flagged.
Wit_C15_OwnHighAboveClose ==
    /\ RadarMetricsCalled /\ Len(radar_bars.high) >= 50
    /\ radar_bars.high[Len(radar_bars.high)] > radar_bars.close
    /\ radar_metrics[1].breakout_up

====
